---- MODULE Spec2Model ----
(***************************************************************************)
(* Semantic analyser of zokrates_core (src/zokrates_core/src/semantics.rs) *)
(* as a state machine: the symbol unifier, the scoped checker, function    *)
(* and statement checking, and the lazy, recursive checking of modules.    *)
(* Then the single functions of the analyser (slices, inline structs), the *)
(* linear combinations of ir/expression.rs and the variable read remover   *)
(* of static_analysis, each under a specification of its own.              *)
(***************************************************************************)
EXTENDS Integers, Sequences, FiniteSets, TLC

(***************************************************************************)
(* Bounds of the model.                                                    *)
(***************************************************************************)
\* number of insert_type / insert_function calls on one SymbolUnifier
MaxCalls == 4
\* number of symbol declarations of the program (all modules)
MaxDecls == 3
\* number of function definitions of the program (all modules)
MaxFunctions == 2
\* number of statements of the program (all functions, any depth)
MaxStmts == 3
\* nesting depth of For statements
MaxDepth == 2

(***************************************************************************)
(* Data: types, signatures, function keys.                                 *)
(***************************************************************************)
\* the value used where an Option is None or a field does not apply
NoLoc == <<>>

\* Type::FieldElement
Field == [k |-> "field", loc |-> NoLoc, mem |-> <<>>]

\* Type::Boolean
Bool == [k |-> "bool", loc |-> NoLoc, mem |-> <<>>]


InputLists == {<<>>, <<Field>>}

\* lists of output types of the signatures drawn as inputs
OutputLists == {<<>>, <<Field>>, <<Bool>>}

\* Signature { inputs, outputs }
Signatures == [inputs : InputLists, outputs : OutputLists]

\* names of module-level symbols (types and functions share one namespace)
SymNames == {"main", "f", "S"}

\* names of variables and parameters
VarNames == {"a", "b"}

\* module ids of the program
ModuleIds == {"main", "A"}

(***************************************************************************)
(* SymbolUnifier: name -> vacant | Type | Functions(set of signatures).    *)
(***************************************************************************)
Vacant == [kind |-> "vacant", sigs |-> {}]

\* SymbolUnifier::default()
EmptyUnifier == [n \in SymNames |-> Vacant]

insert_type(symbols, id) ==
    IF symbols[id].kind # "vacant"
    THEN [ret |-> FALSE, symbols |-> symbols]
    ELSE [ret |-> TRUE,
          symbols |-> [symbols EXCEPT ![id] = [kind |-> "type", sigs |-> {}]]]

\* a unifier that lets a function group be added to a name bound as a type
insert_function_over_type(symbols, id, signature) ==
    [ret |-> signature \notin symbols[id].sigs,
     symbols |-> [symbols EXCEPT ![id] =
                    [kind |-> "functions", sigs |-> symbols[id].sigs \cup {signature}]]]

insert_function(symbols, id, signature) ==
    CASE symbols[id].kind = "type" ->
            [ret |-> FALSE, symbols |-> symbols]
      [] symbols[id].kind = "functions" ->
            [ret |-> signature \notin symbols[id].sigs,
             symbols |-> [symbols EXCEPT ![id].sigs = @ \cup {signature}]]
      [] OTHER ->
            [ret |-> TRUE,
             symbols |-> [symbols EXCEPT ![id] =
                            [kind |-> "functions", sigs |-> {signature}]]]

(***************************************************************************)
(* FunctionKey, FunctionQuery and the typed function symbols.              *)
(***************************************************************************)
\* Option::None where a type is expected
NoneT == [k |-> "none", loc |-> NoLoc, mem |-> <<>>]

\* FunctionKey::with_id(id).signature(signature)
FunctionKey(id, signature) == [id |-> id, signature |-> signature]


FunctionQuery(id, inputs, outputs) == [id |-> id, inputs |-> inputs, outputs |-> outputs]

\* a match that ignores the output hints of the query
match_func_inputs_only(q, func) ==
    /\ q.id = func.id
    /\ q.inputs = func.signature.inputs

match_func(q, func) ==
    /\ q.id = func.id
    /\ q.inputs = func.signature.inputs
    /\ Len(q.outputs) = Len(func.signature.outputs)
    /\ \A index \in 1..Len(q.outputs) :
          \/ q.outputs[index] = NoneT
          \/ q.outputs[index] = func.signature.outputs[index]

\* the keys `funcs.iter().find(..)` can return: the set is a HashSet, so any
\* matching key may come first
match_funcs(q, funcs) == {func \in funcs : match_func(q, func)}

\* Checker::find_function
find_function(q, functions) == match_funcs(q, functions)

(***************************************************************************)
(* Errors: the message template and the names formatted into it.           *)
(***************************************************************************)
Error(message, a, b) == [message |-> message, a |-> a, b |-> b]

\* ErrorInner::in_file
in_file(errs, module_id) ==
    [i \in 1..Len(errs) |-> [inner |-> errs[i], module_id |-> module_id]]

(***************************************************************************)
(* Scope: a HashSet of ScopedVariable, equal when their names are equal.   *)
(***************************************************************************)
ScopedVariable(id, ty, level) == [id |-> id, ty |-> ty, level |-> level]

\* Checker::get_scope: the set holds at most one variable per name
get_scope(scope, variable_name) == {v \in scope : v.id = variable_name}

\* an insert that compares the whole variable (name and type), not the name
insert_into_scope_by_type(scope, level, id, ty) ==
    IF \E v \in scope : v.id = id /\ v.ty = ty
    THEN [ret |-> FALSE, scope |-> scope]
    ELSE [ret |-> TRUE,
          scope |-> {v \in scope : v.id # id} \cup {ScopedVariable(id, ty, level)}]

\* Checker::insert_into_scope
insert_into_scope(scope, level, id, ty) ==
    IF get_scope(scope, id) # {}
    THEN [ret |-> FALSE, scope |-> scope]
    ELSE [ret |-> TRUE, scope |-> scope \cup {ScopedVariable(id, ty, level)}]

\* an exit_scope that retains the variables of the level it leaves
exit_scope_keeps_level(scope, level) == {v \in scope : v.level <= level}

\* Checker::exit_scope: the variables it retains
exit_scope(scope, level) == {v \in scope : v.level < level}

(***************************************************************************)
(* Unresolved types and their resolution.                                  *)
(***************************************************************************)
UField == [u |-> "field", id |-> ""]

UBool == [u |-> "bool", id |-> ""]

UUser(id) == [u |-> "user", id |-> id]


check_type(ty, module_types) ==
    CASE ty.u = "field" -> [ok |-> TRUE, ty |-> Field, err |-> Error("", "", "")]
      [] ty.u = "bool" -> [ok |-> TRUE, ty |-> Bool, err |-> Error("", "", "")]
      [] OTHER ->
            IF module_types[ty.id] # NoneT
            THEN [ok |-> TRUE, ty |-> module_types[ty.id], err |-> Error("", "", "")]
            ELSE [ok |-> FALSE, ty |-> NoneT, err |-> Error("Undefined type", ty.id, "")]

(***************************************************************************)
(* Expressions: the inputs drawn, and check_expression on them.            *)
(***************************************************************************)
\* a literal of a primitive type (a constant)
Lit(ty) == [e |-> "lit", ty |-> ty, name |-> "", args |-> <<>>]

\* Expression::Identifier(name)
Id(name) == [e |-> "id", ty |-> NoneT, name |-> name, args |-> <<>>]

\* Expression::FunctionCall(fun_id, arguments), the arguments being literals
Call(fun_id, args) == [e |-> "call", ty |-> NoneT, name |-> fun_id, args |-> args]


NoKey == FunctionKey("", [inputs |-> <<>>, outputs |-> <<>>])

NoQuery == FunctionQuery("", <<>>, <<>>)

NoError == Error("", "", "")

\* the outcomes of Checker::check_expression: Ok(typed expression) with its
\* type and, for a call, the FunctionKey it resolved to, or Err(error)
check_expression(expr, scope, functions) ==
    CASE expr.e = "lit" ->
            {[ok |-> TRUE, ty |-> expr.ty, err |-> NoError, query |-> NoQuery, key |-> NoKey]}
      [] expr.e = "id" ->
            IF get_scope(scope, expr.name) # {}
            THEN {[ok |-> TRUE, ty |-> v.ty, err |-> NoError, query |-> NoQuery, key |-> NoKey] :
                     v \in get_scope(scope, expr.name)}
            ELSE {[ok |-> FALSE, ty |-> NoneT,
                   err |-> Error("Identifier is undefined", expr.name, ""),
                   query |-> NoQuery, key |-> NoKey]}
      [] OTHER ->
            LET query == FunctionQuery(expr.name, expr.args, <<NoneT>>)
                f == find_function(query, functions)
            IN  IF f = {}
                THEN {[ok |-> FALSE, ty |-> NoneT,
                       err |-> Error("Function definition for function with signature not found.",
                                     expr.name, ""),
                       query |-> query, key |-> NoKey]}
                ELSE {IF Len(k.signature.outputs) = 1
                      THEN [ok |-> TRUE, ty |-> k.signature.outputs[1], err |-> NoError,
                            query |-> query, key |-> k]
                      ELSE [ok |-> FALSE, ty |-> NoneT,
                            err |-> Error("returns n values but is called outside of a definition",
                                          expr.name, ""),
                            query |-> query, key |-> NoKey] : k \in f}

(***************************************************************************)
(* State.                                                                  *)
(***************************************************************************)
VARIABLES
    unifier,        \* a SymbolUnifier under test: its `symbols`
    ulog,           \* the calls made on `unifier` and what they returned
    uprev,          \* `unifier` before the last call
    modules,        \* State::modules: the ids of the modules yet to be checked
    typed_modules,  \* State::typed_modules: module id -> typed module, if any
    types,          \* State::types: module id -> user type id -> Type
    stack,          \* the active check_module calls, innermost last
    outcome,        \* what Checker::check returned, once it has
    consumed,       \* how much of the program has been read so far
    last,           \* the statement or call checked by the last step
    slice,          \* a slice expression a[from..to] and what checking it gave
    inline,         \* an inline struct, the members declared, and what checking it gave
    lin,            \* two LinCombs and what an operation on them gave
    remover,        \* a VariableReadRemover and its last fold_statement call
    abi,            \* a typed program and what TypedProgram::abi gave for it
    json,           \* the ABI written as JSON and read back
    folder,         \* a Folder applied to a typed program
    fcheck,         \* a function body and the errors check_function gave for it
    literal         \* an inline array literal and what checking it gave

uvars == <<unifier, ulog, uprev>>

cvars == <<modules, typed_modules, types, stack, outcome, consumed, last>>

\* the expressions and programs given to single functions
pvars == <<slice, inline, lin, remover, abi, json, folder, fcheck, literal>>

vars == <<unifier, ulog, uprev, modules, typed_modules, types, stack, outcome, consumed, last,
          pvars>>

\* no function is being checked
NoFn ==
    [active |-> FALSE, id |-> "", arguments |-> <<>>, errors |-> <<>>,
     found_return |-> FALSE, sig_ok |-> FALSE, signature |-> NoKey.signature,
     depth |-> 0, returns |-> <<>>, kept |-> 0, nret |-> 0, bound |-> {}]

\* no import is waiting for its module
NoImport == [active |-> FALSE, id |-> "", module_id |-> "", symbol_id |-> ""]

\* a check_module call on entry: a Checker with empty scope and functions,
\* an empty unifier, no checked function, no error
NewFrame(module_id) ==
    [module_id |-> module_id, scope |-> {}, functions |-> {}, level |-> 0,
     symbols |-> EmptyUnifier, checked |-> {}, errors |-> <<>>, ndecl |-> 0,
     import |-> NoImport, fn |-> NoFn, elsewhere |-> {}]

Top == stack[Len(stack)]

SetTop(f) == stack' = [stack EXCEPT ![Len(stack)] = f]

\* the record of a step: the operation, its input (name, declared type,
\* identifiers referenced), its result (ok, the errors it reported, the
\* query made and the key found), and the state it started from (scope,
\* level, depth, names bound so far in this function and in the others)
NoLast ==
    [op |-> "", name |-> "", ty |-> NoneT, ref |-> {}, ok |-> TRUE, errs |-> <<>>,
     query |-> NoQuery, key |-> NoKey, scope0 |-> {}, level0 |-> 0, depth0 |-> 0,
     bound |-> {}, elsewhere |-> {}, nret |-> 0,
     import |-> NoImport, which |-> "", symbols0 |-> EmptyUnifier, checked0 |-> {},
     type0 |-> NoneT, candidate0 |-> NoneT]

\* the record of a statement checked from frame f
LastStmt(op, f) ==
    [NoLast EXCEPT !.op = op, !.scope0 = f.scope, !.level0 = f.level,
                   !.depth0 = f.fn.depth, !.bound = f.fn.bound,
                   !.elsewhere = f.elsewhere]

\* the identifiers an expression list refers to
Refs(es) == {es[i].name : i \in {i \in 1..Len(es) : es[i].e = "id"}}

\* the types map of a module with no user type
NoTypes == [n \in SymNames |-> NoneT]

\* no typed module under this id
NoModule == [present |-> FALSE, functions |-> {}]

Running == outcome.status = "running"

InModule == Running /\ stack # <<>> /\ ~Top.fn.active

\* a declaration is left to read
CanDeclare == InModule /\ consumed.decls < MaxDecls

ReadDeclaration == consumed' = [consumed EXCEPT !.decls = @ + 1]

ReadStatement == consumed' = [consumed EXCEPT !.stmts = @ + 1]

InFunction == Running /\ stack # <<>> /\ Top.fn.active

(***************************************************************************)
(* check_function: parameters, signature, statements, return.              *)
(***************************************************************************)

RECURSIVE check_parameters(_, _, _, _)
check_parameters(args, scope, level, module_types) ==
    IF args = <<>>
    THEN [scope |-> scope, arguments |-> <<>>, errors |-> <<>>]
    ELSE LET a == Head(args)
             r == check_type(a.ty, module_types)
             sc == IF r.ok THEN insert_into_scope(scope, level, a.id, r.ty).scope ELSE scope
             rest == check_parameters(Tail(args), sc, level, module_types)
         IN  [scope |-> rest.scope,
              arguments |-> (IF r.ok
                             THEN <<[id |-> a.id, ty |-> r.ty, private |-> a.private]>>
                             ELSE <<>>) \o rest.arguments,
              errors |-> (IF r.ok THEN <<>> ELSE <<r.err>>) \o rest.errors]

\* the resolution of a list of declared types, every error kept
RECURSIVE check_types(_, _)
check_types(tys, module_types) ==
    IF tys = <<>>
    THEN [tys |-> <<>>, errors |-> <<>>]
    ELSE LET r == check_type(Head(tys), module_types)
             rest == check_types(Tail(tys), module_types)
         IN  [tys |-> (IF r.ok THEN <<r.ty>> ELSE <<>>) \o rest.tys,
              errors |-> (IF r.ok THEN <<>> ELSE <<r.err>>) \o rest.errors]

\* Checker::check_signature
check_signature(inputs, outputs, module_types) ==
    LET i == check_types(inputs, module_types)
        o == check_types(outputs, module_types)
    IN  [ok |-> i.errors \o o.errors = <<>>,
         signature |-> [inputs |-> i.tys, outputs |-> o.tys],
         errors |-> i.errors \o o.errors]

\* the expression loop of a Return statement: the first error ends it
RECURSIVE check_expressions(_, _, _)
check_expressions(es, scope, functions) ==
    IF es = <<>>
    THEN {[ok |-> TRUE, tys |-> <<>>, err |-> NoError]}
    ELSE UNION {IF r.ok
                THEN {[ok |-> rest.ok,
                       tys |-> IF rest.ok THEN <<r.ty>> \o rest.tys ELSE <<>>,
                       err |-> rest.err] :
                         rest \in check_expressions(Tail(es), scope, functions)}
                ELSE {[ok |-> FALSE, tys |-> <<>>, err |-> r.err]} :
                    r \in check_expression(Head(es), scope, functions)}

\* check_function up to its statement loop: enter_scope, the parameters,
\* the signature
FunctionBegin(id, arguments, outputs) ==
    /\ CanDeclare
    /\ consumed.fns < MaxFunctions
    /\ consumed' = [consumed EXCEPT !.decls = @ + 1, !.fns = @ + 1]
    /\ LET f == Top
           level == f.level + 1
           ps == check_parameters(arguments, f.scope, level, types[f.module_id])
           sg == check_signature([i \in 1..Len(arguments) |-> arguments[i].ty], outputs,
                                 types[f.module_id])
       IN  /\ SetTop([f EXCEPT !.level = level, !.scope = ps.scope, !.ndecl = @ + 1,
                               !.fn = [NoFn EXCEPT !.active = TRUE, !.id = id,
                                                   !.arguments = ps.arguments,
                                                   !.errors = ps.errors \o sg.errors,
                                                   !.sig_ok = sg.ok,
                                                   !.signature = sg.signature,
                                                   !.bound = {arguments[i].id :
                                                                i \in 1..Len(arguments)}]])
           /\ last' = [LastStmt("FunctionBegin", f) EXCEPT !.name = id]
    /\ UNCHANGED <<modules, typed_modules, types, outcome, uvars, pvars>>

\* the frame after one statement of the function being checked: an Ok
\* statement is kept at its depth; an Err leaves every enclosing For
\* statement at once (check_statement returns through each `?`, without
\* exit_scope), drops what they had checked, and reaches the error list
After(f, scope, level, ok, errs, rets) ==
    [f EXCEPT !.scope = scope, !.level = level,
              !.fn = [f.fn EXCEPT !.errors = @ \o errs,
                                  !.depth = IF ok THEN @ ELSE 0,
                                  !.returns = IF ok THEN @ \o rets
                                              ELSE IF f.fn.depth > 0
                                                   THEN SubSeq(@, 1, f.fn.kept)
                                                   ELSE @]]

CanCheckStatement == InFunction /\ Top.fn.sig_ok /\ consumed.stmts < MaxStmts


StmtReturn(es) ==
    /\ CanCheckStatement
    /\ \E r \in check_expressions(es, Top.scope, Top.functions) :
          LET f == Top
              top == f.fn.depth = 0
              single == IF top /\ f.fn.found_return
                        THEN <<Error("Expected a single return statement", "", "")>>
                        ELSE <<>>
              found == IF top /\ r.ok /\ r.tys # f.fn.signature.outputs
                       THEN <<Error("Expected in return statement, found", "", "")>>
                       ELSE <<>>
              errs == single \o (IF r.ok THEN found ELSE <<r.err>>)
              g == After(f, f.scope, f.level, r.ok, errs,
                         <<[depth |-> f.fn.depth, types |-> r.tys]>>)
          IN  /\ SetTop([g EXCEPT !.fn.found_return = @ \/ top, !.fn.nret = @ + 1])
              /\ last' = [LastStmt("Return", f) EXCEPT !.ok = r.ok, !.errs = errs,
                                                       !.ref = Refs(es)]
    /\ ReadStatement
    /\ UNCHANGED <<modules, typed_modules, types, outcome, uvars, pvars>>

\* Statement::Declaration
StmtDeclaration(id, ty) ==
    /\ CanCheckStatement
    /\ LET f == Top
           r == check_type(ty, types[f.module_id])
           ins == insert_into_scope(f.scope, f.level, id, r.ty)
           ok == r.ok /\ ins.ret
           errs == IF ~r.ok THEN <<r.err>>
                   ELSE IF ~ins.ret
                        THEN <<Error("Duplicate declaration for variable named", id, "")>>
                        ELSE <<>>
           g == After(f, IF r.ok THEN ins.scope ELSE f.scope, f.level, ok, errs, <<>>)
       IN  /\ SetTop([g EXCEPT !.fn.bound = @ \cup {id}])
           /\ last' = [LastStmt("Declaration", f) EXCEPT !.name = id, !.ty = r.ty,
                                                        !.ok = ok, !.errs = errs]
    /\ ReadStatement
    /\ UNCHANGED <<modules, typed_modules, types, outcome, uvars, pvars>>

\* Statement::Assertion
StmtAssertion(e) ==
    /\ CanCheckStatement
    /\ \E r \in check_expression(e, Top.scope, Top.functions) :
          LET f == Top
              ok == r.ok /\ r.ty = Bool
              errs == IF ~r.ok THEN <<r.err>>
                      ELSE IF r.ty # Bool
                           THEN <<Error("Expected to be of type bool, found", "", "")>>
                           ELSE <<>>
          IN  /\ SetTop(After(f, f.scope, f.level, ok, errs, <<>>))
              /\ last' = [LastStmt("Assertion", f) EXCEPT !.name = e.name, !.ok = ok,
                                                          !.errs = errs, !.ref = Refs(<<e>>),
                                                          !.query = r.query, !.key = r.key]
    /\ ReadStatement
    /\ UNCHANGED <<modules, typed_modules, types, outcome, uvars, pvars>>


StmtMultipleDefinition(assignees, fun_id, args) ==
    /\ CanCheckStatement
    /\ LET f == Top
           undeclared == {i \in 1..Len(assignees) : get_scope(f.scope, assignees[i]) = {}}
           aerrs == [i \in 1..Len(assignees) |->
                        Error("Variable is undeclared", assignees[i], "")]
           assignee_types == [i \in 1..Len(assignees) |->
                                 (CHOOSE v \in get_scope(f.scope, assignees[i]) : TRUE).ty]
           uerrs == SelectSeq(aerrs, LAMBDA e : get_scope(f.scope, e.a) = {})
           notfound == <<Error("Function definition for function with signature not found.",
                                fun_id, "")>>
       IN  IF undeclared # {}
           THEN /\ SetTop(After(f, f.scope, f.level, FALSE, uerrs, <<>>))
                /\ last' = [LastStmt("MultipleDefinition", f) EXCEPT
                                !.name = fun_id, !.ok = FALSE, !.errs = uerrs]
           ELSE LET query == FunctionQuery(fun_id, args, assignee_types)
                    found == find_function(query, f.functions)
                IN  IF found = {}
                    THEN /\ SetTop(After(f, f.scope, f.level, FALSE, notfound, <<>>))
                         /\ last' = [LastStmt("MultipleDefinition", f) EXCEPT
                                         !.name = fun_id, !.ok = FALSE, !.errs = notfound,
                                         !.query = query]
                    ELSE \E k \in found :
                            /\ SetTop(After(f, f.scope, f.level, TRUE, <<>>, <<>>))
                            /\ last' = [LastStmt("MultipleDefinition", f) EXCEPT
                                            !.name = fun_id, !.ok = TRUE,
                                            !.query = query, !.key = k]
    /\ ReadStatement
    /\ UNCHANGED <<modules, typed_modules, types, outcome, uvars, pvars>>

\* Statement::For up to its body: enter_scope, check_for_var, the bounds,
\* the loop variable inserted into the scope (the result is dropped)
StmtForBegin(id, ty, from, to) ==
    /\ CanCheckStatement
    /\ Top.fn.depth < MaxDepth
    /\ \E rf \in check_expression(from, Top.scope, Top.functions),
          rt \in check_expression(to, Top.scope, Top.functions) :
          LET f == Top
              level == f.level + 1
              errs == IF ty # UField
                      THEN <<Error("Variable in for loop cannot have type", id, "")>>
                      ELSE IF ~rf.ok THEN <<rf.err>>
                      ELSE IF ~rt.ok THEN <<rt.err>>
                      ELSE IF rf.ty # Field
                           THEN <<Error("Expected lower loop bound to be of type field, found",
                                        "", "")>>
                      ELSE IF rt.ty # Field
                           THEN <<Error("Expected higher loop bound to be of type field, found",
                                        "", "")>>
                      ELSE <<>>
              ok == errs = <<>>
              scope == IF ok THEN insert_into_scope(f.scope, level, id, Field).scope
                       ELSE f.scope
              g == After(f, scope, level, ok, errs, <<>>)
          IN  /\ SetTop(IF ok
                        THEN [g EXCEPT !.fn.depth = @ + 1,
                                       !.fn.kept = IF f.fn.depth = 0
                                                   THEN Len(f.fn.returns) ELSE @,
                                       !.fn.bound = @ \cup {id}]
                        ELSE g)
              /\ last' = [LastStmt("For", f) EXCEPT !.name = id, !.ok = ok, !.errs = errs,
                                                    !.ref = Refs(<<from, to>>)]
    /\ ReadStatement
    /\ UNCHANGED <<modules, typed_modules, types, outcome, uvars, pvars>>

\* Statement::For once its body is checked: exit_scope
StmtForEnd ==
    /\ InFunction
    /\ Top.fn.depth > 0
    /\ LET f == Top
       IN  /\ SetTop([f EXCEPT !.scope = exit_scope(f.scope, f.level),
                               !.level = f.level - 1,
                               !.fn.depth = @ - 1])
           /\ last' = LastStmt("ForEnd", f)
    /\ UNCHANGED <<modules, typed_modules, types, outcome, consumed, uvars, pvars>>

(***************************************************************************)
(* The typed function symbols of a module: a HashMap keyed by FunctionKey. *)
(***************************************************************************)
\* TypedFunctionSymbol::Here(TypedFunction): its arguments, its signature
\* and, of its statements, the Return statements with their depth and types
Here(funct) ==
    [kind |-> "Here", signature |-> funct.signature, arguments |-> funct.arguments,
     returns |-> funct.returns, key |-> NoKey, module_id |-> ""]

\* TypedFunctionSymbol::There(key, module_id)
There(key, module_id) ==
    [kind |-> "There", signature |-> NoKey.signature, arguments |-> <<>>,
     returns |-> <<>>, key |-> key, module_id |-> module_id]

\* TypedFunctionSymbol::Flat(embed)
Flat(signature) ==
    [kind |-> "Flat", signature |-> signature, arguments |-> <<>>,
     returns |-> <<>>, key |-> NoKey, module_id |-> ""]

\* HashMap::insert: the entry under an equal key is replaced
Put(map, key, sym) == {e \in map : e.key # key} \cup {[key |-> key, sym |-> sym]}

\* check_function on success: exit_scope
function_exit(f) ==
    [f EXCEPT !.scope = exit_scope(f.scope, f.level), !.level = f.level - 1]

\* the errors of check_function once its statements are checked
function_errors(fn) ==
    IF fn.sig_ok /\ ~fn.found_return
    THEN fn.errors \o <<Error("Expected a return statement", "", "")>>
    ELSE fn.errors

\* the end of check_function and, in check_symbol_declaration, what becomes
\* of its result: Err goes to the errors of the module (the scope is not
\* left); Ok goes through the unifier, then into the functions of the
\* checker and of the module
FunctionEnd ==
    /\ InFunction
    /\ Top.fn.depth = 0
    /\ LET f == Top
           fn == f.fn
           errors == function_errors(fn)
           g == function_exit(f)
           key == FunctionKey(fn.id, fn.signature)
           ins == insert_function(f.symbols, fn.id, fn.signature)
       IN  /\ IF errors # <<>>
              THEN SetTop([f EXCEPT !.errors = @ \o in_file(errors, f.module_id),
                                    !.elsewhere = @ \cup fn.bound,
                                    !.fn = NoFn])
              ELSE SetTop([g EXCEPT !.symbols = ins.symbols,
                                    !.errors = IF ins.ret THEN @
                                               ELSE @ \o in_file(
                                                   <<Error("conflicts with another symbol",
                                                           fn.id, "")>>, f.module_id),
                                    !.functions = @ \cup {key},
                                    !.checked = Put(@, key, Here(fn)),
                                    !.elsewhere = @ \cup fn.bound,
                                    !.fn = NoFn])
           /\ last' = [LastStmt("FunctionEnd", f) EXCEPT !.name = fn.id,
                                                        !.ok = errors = <<>>,
                                                        !.errs = errors,
                                                        !.nret = fn.nret]
    /\ UNCHANGED <<modules, typed_modules, types, outcome, consumed, uvars, pvars>>

(***************************************************************************)
(* check_symbol_declaration for types, embeds and imports.                 *)
(***************************************************************************)
Conflict(id, module_id) ==
    in_file(<<Error("conflicts with another symbol", id, "")>>, module_id)


StructType(module_id, id, members) ==
    [k |-> "struct", loc |-> <<module_id, id>>, mem |-> members]

\* the member loop of check_struct_type_declaration
RECURSIVE check_fields(_, _, _)
check_fields(fields, fields_set, module_types) ==
    IF fields = <<>>
    THEN [fields |-> <<>>, errors |-> <<>>]
    ELSE LET field == Head(fields)
             r == check_type(field.ty, module_types)
             dup == r.ok /\ field.id \in fields_set
             rest == check_fields(Tail(fields),
                                  IF r.ok THEN fields_set \cup {field.id} ELSE fields_set,
                                  module_types)
         IN  [fields |-> (IF r.ok /\ ~dup THEN <<[id |-> field.id, ty |-> r.ty]>> ELSE <<>>)
                            \o rest.fields,
              errors |-> (IF ~r.ok THEN <<r.err>>
                          ELSE IF dup
                               THEN <<Error("Duplicate key in struct definition", field.id, "")>>
                               ELSE <<>>) \o rest.errors]

\* Checker::check_struct_type_declaration
check_struct_type_declaration(id, s, module_id, module_types) ==
    LET r == check_fields(s, {}, module_types)
    IN  [ok |-> r.errors = <<>>,
         ty |-> StructType(module_id, id, r.fields),
         errors |-> r.errors]

\* Symbol::HereType
DeclHereType(id, s) ==
    /\ CanDeclare
    /\ ReadDeclaration
    /\ LET f == Top
           r == check_struct_type_declaration(id, s, f.module_id, types[f.module_id])
           ins == insert_type(f.symbols, id)
       IN  IF r.ok
           THEN /\ SetTop([f EXCEPT !.ndecl = @ + 1, !.symbols = ins.symbols,
                                    !.errors = IF ins.ret THEN @
                                               ELSE @ \o Conflict(id, f.module_id)])
                /\ types' = [types EXCEPT ![f.module_id][id] = r.ty]
           ELSE /\ SetTop([f EXCEPT !.ndecl = @ + 1,
                                    !.errors = @ \o in_file(r.errors, f.module_id)])
                /\ types' = types
    /\ last' = [NoLast EXCEPT !.op = "HereType", !.name = id]
    /\ UNCHANGED <<modules, typed_modules, outcome, uvars, pvars>>

\* Symbol::Flat
DeclFlat(id, signature) ==
    /\ CanDeclare
    /\ ReadDeclaration
    /\ LET f == Top
           ins == insert_function(f.symbols, id, signature)
           key == FunctionKey(id, signature)
       IN  SetTop([f EXCEPT !.ndecl = @ + 1, !.symbols = ins.symbols,
                            !.errors = IF ins.ret THEN @ ELSE @ \o Conflict(id, f.module_id),
                            !.functions = @ \cup {key},
                            !.checked = Put(@, key, Flat(signature))])
    /\ last' = [NoLast EXCEPT !.op = "Flat", !.name = id]
    /\ UNCHANGED <<modules, typed_modules, types, outcome, uvars, pvars>>

\* HashMap::get(key).unwrap() on the functions of a typed module
GetSymbol(functions, key) == (CHOOSE e \in functions : e.key = key).sym

\* TypedFunctionSymbol::signature
RECURSIVE signature(_, _)
signature(v, tms) ==
    IF v.kind = "There"
    THEN signature(GetSymbol(tms[v.module_id].functions, v.key), tms)
    ELSE v.signature

\* an import that stops after one function candidate
import_one_candidate(candidates, f, imp) ==
    IF candidates = {}
    THEN f
    ELSE LET candidate == CHOOSE c \in candidates : TRUE
             ins == insert_function(f.symbols, imp.id, candidate.signature)
             key == FunctionKey(imp.id, candidate.signature)
         IN  [f EXCEPT !.symbols = ins.symbols,
                       !.errors = IF ins.ret THEN @ ELSE @ \o Conflict(imp.id, f.module_id),
                       !.functions = @ \cup {key},
                       !.checked = Put(@, key, There(candidate, imp.module_id))]

\* the loop over the function candidates of an import: each goes through
\* the unifier, then into the functions of the checker and of the module
RECURSIVE import_candidates(_, _, _)
import_candidates(candidates, f, imp) ==
    IF candidates = {}
    THEN f
    ELSE LET candidate == CHOOSE c \in candidates : TRUE
             ins == insert_function(f.symbols, imp.id, candidate.signature)
             key == FunctionKey(imp.id, candidate.signature)
         IN  import_candidates(candidates \ {candidate},
                [f EXCEPT !.symbols = ins.symbols,
                          !.errors = IF ins.ret THEN @ ELSE @ \o Conflict(imp.id, f.module_id),
                          !.functions = @ \cup {key},
                          !.checked = Put(@, key, There(candidate, imp.module_id))],
                imp)

\* an import that keeps the location of the struct it imports
renamed_keeps_location(t, module_id, id) == t

\* the imported struct type, renamed to the declared symbol
renamed(t, module_id, id) == [t EXCEPT !.loc = <<module_id, id>>]

\* the match on (function_candidates.len(), type_candidate)
import_case(function_candidates, type_candidate) ==
    CASE function_candidates = {} /\ type_candidate # NoneT -> "type"
      [] function_candidates = {} /\ type_candidate = NoneT -> "none"
      [] function_candidates # {} /\ type_candidate # NoneT -> "unreachable"
      [] OTHER -> "functions"

\* the record of an import resolved from frame f of the importing module
LastImport(op, f, which, tys) ==
    [NoLast EXCEPT !.op = op, !.name = f.import.id, !.import = f.import, !.which = which,
                   !.symbols0 = f.symbols, !.checked0 = f.checked,
                   !.type0 = tys[f.module_id][f.import.id],
                   !.candidate0 = tys[f.import.module_id][f.import.symbol_id]]

\* Symbol::There once check_module(import.module_id) has returned `ok` or
\* the errors `errs`: the frame of the importing module, the types map, and
\* whether the checker panicked
ImportResult(f, ok, errs, tms, tys) ==
    LET imp == f.import
        g == [f EXCEPT !.import = NoImport]
    IN  IF ~ok
        THEN [frame |-> [g EXCEPT !.errors = @ \o errs], types |-> tys, panic |-> "",
              which |-> "failed"]
        ELSE IF ~tms[imp.module_id].present
        THEN [frame |-> g, types |-> tys,
              panic |-> "called Option::unwrap() on a None value", which |-> "missing"]
        ELSE LET function_candidates ==
                     {FunctionKey(imp.symbol_id, signature(e.sym, tms)) :
                          e \in {e \in tms[imp.module_id].functions :
                                     e.key.id = imp.symbol_id}}
                 type_candidate == tys[imp.module_id][imp.symbol_id]
                 which == import_case(function_candidates, type_candidate)
                 ins == insert_type(f.symbols, imp.id)
             IN  IF which = "type" THEN
                        [frame |-> [g EXCEPT !.symbols = ins.symbols,
                                             !.errors = IF ins.ret THEN @
                                                        ELSE @ \o Conflict(imp.id, f.module_id)],
                         types |-> [tys EXCEPT ![f.module_id][imp.id] =
                                        renamed(type_candidate, f.module_id, imp.id)],
                         panic |-> "", which |-> which]
                 ELSE IF which = "none" THEN
                        [frame |-> [g EXCEPT !.errors = @ \o in_file(
                                        <<Error("Could not find symbol in module",
                                                imp.symbol_id, imp.module_id)>>, f.module_id)],
                         types |-> tys, panic |-> "", which |-> which]
                 ELSE IF which = "unreachable" THEN
                        [frame |-> g, types |-> tys,
                         panic |-> "collision in module we are importing from",
                         which |-> which]
                 ELSE
                        [frame |-> import_candidates(function_candidates, g, imp),
                         types |-> tys, panic |-> "", which |-> which]

(***************************************************************************)
(* check_module and check_program.                                         *)
(***************************************************************************)
\* Checker::new().check_module(&import.module_id, state), on entry
ImportFrame(parent, module_id) == NewFrame(module_id)

Panic(message) == outcome' = [status |-> "panic", errors |-> <<>>, n |-> 0, panic |-> message]

\* a check_module that looks the module up in the pending modules and leaves
\* it there
DeclThere_module_left_pending(id, module_id, symbol_id) ==
    /\ CanDeclare
    /\ ReadDeclaration
    /\ LET f == [Top EXCEPT !.ndecl = @ + 1,
                            !.import = [active |-> TRUE, id |-> id,
                                        module_id |-> module_id, symbol_id |-> symbol_id]]
           r == ImportResult(f, TRUE, <<>>, typed_modules, types)
       IN  IF module_id \in modules
           THEN /\ modules' = modules
                /\ stack' = Append([stack EXCEPT ![Len(stack)] = f],
                                   ImportFrame(f, module_id))
                /\ last' = [NoLast EXCEPT !.op = "There", !.name = id]
                /\ UNCHANGED <<types, outcome>>
           ELSE IF r.panic # ""
           THEN /\ Panic(r.panic)
                /\ last' = LastImport("There", f, r.which, types)
                /\ UNCHANGED <<modules, types, stack>>
           ELSE /\ SetTop(r.frame)
                /\ types' = r.types
                /\ last' = LastImport("There", f, r.which, types)
                /\ UNCHANGED <<modules, outcome>>
    /\ UNCHANGED <<typed_modules, uvars, pvars>>

\* Symbol::There: a module still pending is checked first, by a new Checker;
\* for any other module check_module returns Ok(()) at once
DeclThere(id, module_id, symbol_id) ==
    /\ CanDeclare
    /\ ReadDeclaration
    /\ LET f == [Top EXCEPT !.ndecl = @ + 1,
                            !.import = [active |-> TRUE, id |-> id,
                                        module_id |-> module_id, symbol_id |-> symbol_id]]
           r == ImportResult(f, TRUE, <<>>, typed_modules, types)
       IN  IF module_id \in modules
           THEN /\ modules' = modules \ {module_id}
                /\ stack' = Append([stack EXCEPT ![Len(stack)] = f],
                                   ImportFrame(f, module_id))
                /\ last' = [NoLast EXCEPT !.op = "There", !.name = id]
                /\ UNCHANGED <<types, outcome>>
           ELSE IF r.panic # ""
           THEN /\ Panic(r.panic)
                /\ last' = LastImport("There", f, r.which, types)
                /\ UNCHANGED <<modules, types, stack>>
           ELSE /\ SetTop(r.frame)
                /\ types' = r.types
                /\ last' = LastImport("There", f, r.which, types)
                /\ UNCHANGED <<modules, outcome>>
    /\ UNCHANGED <<typed_modules, uvars, pvars>>

\* the module `main` of the program
MainModule == "main"

\* a check that accepts any number of functions named main but zero
check_single_main_at_least_one(functions) ==
    IF Cardinality({e \in functions : e.key.id = "main"}) = 0
    THEN [ok |-> FALSE, err |-> Error("No main function found", "", ""), n |-> 0]
    ELSE [ok |-> TRUE, err |-> NoError, n |-> 0]

\* Checker::check_single_main
check_single_main(functions) ==
    LET n == Cardinality({e \in functions : e.key.id = "main"})
    IN  CASE n = 1 -> [ok |-> TRUE, err |-> NoError, n |-> 0]
          [] n = 0 -> [ok |-> FALSE, err |-> Error("No main function found", "", ""), n |-> 0]
          [] OTHER -> [ok |-> FALSE,
                       err |-> Error("Only one main function allowed, found", "", ""),
                       n |-> n]

\* the end of check_module: with errors it returns them; without, the typed
\* module is inserted (the assertion is that none was there). The caller is
\* check_program for the main module, an import declaration for any other
ModuleEnd ==
    /\ InModule
    /\ LET f == Top
           ok == f.errors = <<>>
           tms == IF ok
                  THEN [typed_modules EXCEPT ![f.module_id] =
                            [present |-> TRUE, functions |-> f.checked]]
                  ELSE typed_modules
           main == check_single_main(tms[MainModule].functions)
           parent == stack[Len(stack) - 1]
           r == ImportResult(parent, ok, f.errors, tms, types)
       IN  IF ok /\ typed_modules[f.module_id].present
           THEN /\ Panic("assertion failed: typed_modules.insert(..).is_none()")
                /\ last' = [NoLast EXCEPT !.op = "ModuleEnd"]
                /\ UNCHANGED <<typed_modules, types, stack>>
           ELSE IF Len(stack) = 1
           THEN /\ typed_modules' = tms
                /\ stack' = <<>>
                /\ outcome' = IF ~ok
                              THEN [status |-> "err", errors |-> f.errors, n |-> 0, panic |-> ""]
                              ELSE IF main.ok
                              THEN [status |-> "ok", errors |-> <<>>, n |-> 0, panic |-> ""]
                              ELSE [status |-> "err",
                                    errors |-> in_file(<<main.err>>, MainModule),
                                    n |-> main.n, panic |-> ""]
                /\ last' = [NoLast EXCEPT !.op = "CheckProgramEnd", !.ok = ok]
                /\ UNCHANGED types
           ELSE IF r.panic # ""
           THEN /\ Panic(r.panic)
                /\ typed_modules' = tms
                /\ last' = LastImport("ModuleEnd", parent, r.which, types)
                /\ UNCHANGED <<types, stack>>
           ELSE /\ typed_modules' = tms
                /\ types' = r.types
                /\ stack' = [i \in 1..(Len(stack) - 1) |->
                                IF i = Len(stack) - 1 THEN r.frame ELSE stack[i]]
                /\ last' = LastImport("ModuleEnd", parent, r.which, types)
                /\ UNCHANGED outcome
    /\ UNCHANGED <<modules, consumed, uvars, pvars>>

\* Checker::check(prog): check_program starts check_module on the main
\* module, which leaves the pending modules
CheckProgram ==
    /\ outcome.status = "init"
    /\ modules' = modules \ {MainModule}
    /\ stack' = <<NewFrame(MainModule)>>
    /\ outcome' = [outcome EXCEPT !.status = "running"]
    /\ last' = [NoLast EXCEPT !.op = "CheckProgram"]
    /\ UNCHANGED <<typed_modules, types, consumed, uvars, pvars>>

(***************************************************************************)
(* Calls on a SymbolUnifier of its own.                                    *)
(***************************************************************************)
InsertType(id) ==
    /\ Len(ulog) < MaxCalls
    /\ LET r == insert_type(unifier, id)
       IN  /\ unifier' = r.symbols
           /\ ulog' = Append(ulog, [op |-> "insert_type", id |-> id,
                                    signature |-> NoKey.signature, ret |-> r.ret])
    /\ uprev' = unifier
    /\ UNCHANGED <<cvars, pvars>>

InsertFunction(id, sig) ==
    /\ Len(ulog) < MaxCalls
    /\ LET r == insert_function(unifier, id, sig)
       IN  /\ unifier' = r.symbols
           /\ ulog' = Append(ulog, [op |-> "insert_function", id |-> id,
                                    signature |-> sig, ret |-> r.ret])
    /\ uprev' = unifier
    /\ UNCHANGED <<cvars, pvars>>

(***************************************************************************)
(* check_expression on a slice a[from..to] of an array of known size.      *)
(***************************************************************************)
\* the largest value of usize, scaled down: field literals go beyond it
UsizeMax == 7

\* the largest array size drawn
MaxSize == 3

\* r.value.from / r.value.to is None
NoBound == -1

\* the field literals drawn as bounds: every usize value and one more
Literals == 0..(UsizeMax + 1)

\* the result of check_expression on a slice: Ok(inline array) with its size
\* and, per element, the index selected in the array; Err(message with its
\* two numbers); or a panic
SliceOk(size, elems) == [kind |-> "ok", size |-> size, elems |-> elems, message |-> "", a |-> 0, b |-> 0]

SliceErr(message, a, b) ==
    [kind |-> "err", size |-> 0, elems |-> <<>>, message |-> message, a |-> a, b |-> b]

SlicePanic(message) ==
    [kind |-> "panic", size |-> 0, elems |-> <<>>, message |-> message, a |-> 0, b |-> 0]

NotChecked == [kind |-> "", size |-> 0, elems |-> <<>>, message |-> "", a |-> 0, b |-> 0]

\* n.to_dec_string().parse::<usize>(): Ok for the values of usize only
parse_usize(n) == [ok |-> n <= UsizeMax, value |-> n]

\* the match on (from, to, array_size) with usize bounds
check_range(f, t, s) ==
    IF f > s THEN SliceErr("Lower range bound is out of array bounds", f, s)
    ELSE IF t > s THEN SliceErr("Higher range bound is out of array bounds", t, s)
    ELSE IF f > t THEN SliceErr("Lower range bound is larger than higher range bound", f, t)
    ELSE SliceOk(t - f, [k \in 1..(t - f) |-> f + k - 1])

\* check_expression on Select(array, Range(from, to)), the array of size
\* array_size and the bounds given being field literals
check_slice(array_size, from, to) ==
    LET from_checked == IF from = NoBound THEN 0 ELSE from
        to_checked == IF to = NoBound THEN array_size ELSE to
        f == parse_usize(from_checked)
        t == parse_usize(to_checked)
    IN  IF ~f.ok \/ ~t.ok
        THEN SlicePanic("called Result::unwrap() on an Err value")
        ELSE check_range(f.value, t.value, array_size)

\* no slice is given
NoSlice == [size |-> 0, from |-> NoBound, to |-> NoBound, out |-> NotChecked]

SliceIdle == slice = NoSlice

\* the slices drawn: every array size, every bound omitted or a literal
SliceInputs ==
    [size : 0..MaxSize, from : {NoBound} \cup Literals, to : {NoBound} \cup Literals,
     out : {NotChecked}]

\* the slice is checked
CheckSlice ==
    /\ slice.out = NotChecked
    /\ slice' = [slice EXCEPT !.out = check_slice(slice.size, slice.from, slice.to)]
    /\ UNCHANGED <<cvars, uvars, inline, lin, remover, abi, json, folder, fcheck, literal>>

(***************************************************************************)
(* check_expression on an inline struct T { id: value, .. }.               *)
(***************************************************************************)
\* the longest literal drawn
MaxInline == 3

\* the declared member lists drawn: what check_struct_type_declaration
\* accepts, so no member id twice
DeclaredMembers ==
    {<<>>} \cup {<<[id |-> "x", ty |-> tx]>> : tx \in {Field, Bool}}
           \cup {<<[id |-> n[1], ty |-> tx], [id |-> n[2], ty |-> ty]>> :
                    n \in {<<"x", "y">>, <<"y", "x">>}, tx \in {Field, Bool}, ty \in {Field, Bool}}

\* the values of an inline struct: a constant of a type, told from the
\* others of the literal by its position
InlineMember(id, ty, at) == [id |-> id, ty |-> ty, at |-> at]

RECURSIVE InlineLists(_)
InlineLists(n) ==
    IF n = 0 THEN {<<>>}
    ELSE InlineLists(n - 1) \cup
         {Append(l, InlineMember(id, ty, Len(l) + 1)) :
              l \in {l \in InlineLists(n - 1) : Len(l) = n - 1},
              id \in {"x", "y", "z"}, ty \in {Field, Bool}}

\* inline_members collected into a HashMap: of two values under one id the
\* later one stays
RECURSIVE inline_members_map(_)
inline_members_map(inline_members) ==
    IF inline_members = <<>>
    THEN {}
    ELSE LET n == Len(inline_members)
             v == inline_members[n]
             before == inline_members_map(SubSeq(inline_members, 1, n - 1))
         IN  {w \in before : w.id # v.id} \cup {v}

InlineErr(message, a) == [ok |-> FALSE, values |-> <<>>, message |-> message, a |-> a]

\* the loop over the declared members: the value under the id of each is
\* removed from the map, checked, and its type compared
RECURSIVE check_members(_, _, _)
check_members(members, map, result) ==
    IF members = <<>>
    THEN [ok |-> TRUE, values |-> result, message |-> "", a |-> ""]
    ELSE LET member == Head(members)
             found == {v \in map : v.id = member.id}
             value == CHOOSE v \in found : TRUE
         IN  IF found = {}
             THEN InlineErr("Member of struct not found in value", member.id)
             ELSE IF value.ty # member.ty
             THEN InlineErr("Member of struct has type, found of type", member.id)
             ELSE check_members(Tail(members), map \ {value}, Append(result, value))

\* a check without the comparison of the lengths
check_inline_struct_no_length(members, inline_members) ==
    check_members(members, inline_members_map(inline_members), <<>>)

\* check_expression on InlineStruct(id, inline_members), the struct type of
\* id having these members
check_inline_struct(members, inline_members) ==
    IF Len(members) # Len(inline_members)
    THEN InlineErr("Inline struct does not match", "")
    ELSE check_members(members, inline_members_map(inline_members), <<>>)

InlineNotChecked == [ok |-> FALSE, values |-> <<>>, message |-> "not checked", a |-> ""]

\* no inline struct is given
NoInline == [members |-> <<>>, inline_members |-> <<>>, out |-> InlineNotChecked]

InlineIdle == inline = NoInline

InlineInputs ==
    [members : DeclaredMembers, inline_members : InlineLists(MaxInline),
     out : {InlineNotChecked}]

\* the inline struct is checked
CheckInlineStruct ==
    /\ inline.out = InlineNotChecked
    /\ inline' = [inline EXCEPT !.out = check_inline_struct(inline.members,
                                                            inline.inline_members)]
    /\ UNCHANGED <<cvars, uvars, slice, lin, remover, abi, json, folder, fcheck, literal>>

(***************************************************************************)
(* ir::expression: LinComb and QuadComb over a prime field.                *)
(***************************************************************************)
\* the modulus of the field T
Prime == 5

\* the longest term list drawn
MaxTerms == 3

\* the longest term list drawn for the second LinComb
MaxOther == 1

FieldElements == 0..(Prime - 1)

\* T::zero()
FZero == 0

\* the operators + - * of T
FAdd(a, b) == (a + b) % Prime

FSub(a, b) == (a - b + Prime) % Prime

FMul(a, b) == (a * b) % Prime

\* Option: None
NoElement == [some |-> FALSE, value |-> 0]

\* Field::inverse_mul: None for zero
inverse_mul(k) ==
    IF k = FZero
    THEN NoElement
    ELSE [some |-> TRUE, value |-> CHOOSE i \in FieldElements : FMul(i, k) = 1]

\* FlatVariable::one()
One == 0

\* the wires drawn: ONE and another one
Wires == {One, 1}

\* the term lists of up to n terms: LinComb(Vec<(FlatVariable, T)>)
RECURSIVE LinCombs(_)
LinCombs(n) ==
    IF n = 0 THEN {<<>>}
    ELSE LinCombs(n - 1) \cup
         {Append(l, <<var, coeff>>) :
              l \in {l \in LinCombs(n - 1) : Len(l) = n - 1},
              var \in Wires, coeff \in FieldElements}

\* LinComb::summand
summand(mult, var) == << <<var, mult>> >>

\* LinComb::zero
zero == <<>>

\* LinComb::one
one == summand(1, One)

\* LinComb::is_zero
is_zero(l) == Len(l) = 0

\* the sum of the coefficients of a term list: fold(T::zero(), acc + e)
RECURSIVE sum_coefficients(_)
sum_coefficients(l) ==
    IF l = <<>> THEN FZero
    ELSE FAdd(sum_coefficients(SubSeq(l, 1, Len(l) - 1)), l[Len(l)][2])

NoSummand == [some |-> FALSE, var |-> One, coeff |-> FZero]

\* LinComb::try_summand
try_summand(l) ==
    IF Len(l) = 0
    THEN NoSummand
    ELSE LET first == l[1][1]
         IN  IF \A i \in 1..Len(l) : l[i][1] = first
             THEN [some |-> TRUE, var |-> first, coeff |-> sum_coefficients(l)]
             ELSE NoSummand

\* BTreeMap::new(): the entries (wire, coefficient) of a map
NoEntries == {}

\* a fold that keeps a wire whose coefficients cancel, with coefficient zero
RECURSIVE canonical_fold_keeps_zero(_, _)
canonical_fold_keeps_zero(l, acc) ==
    IF l = <<>>
    THEN [map |-> acc, panic |-> FALSE]
    ELSE LET o == {e \in acc : e[1] = l[1][1]}
             get == IF o = {} THEN FZero ELSE (CHOOSE e \in o : TRUE)[2]
         IN  IF l[1][2] = FZero
             THEN canonical_fold_keeps_zero(Tail(l), acc)
             ELSE canonical_fold_keeps_zero(Tail(l),
                     (acc \ o) \cup {<<l[1][1], FAdd(get, l[1][2])>>})

\* the fold of into_canonical from the map acc on: a term of coefficient
\* zero is skipped; a wire already there gets the sum, or is removed when
\* the sum is zero; a new wire is inserted, its coefficient asserted non-zero
RECURSIVE canonical_fold(_, _)
canonical_fold(l, acc) ==
    IF l = <<>>
    THEN [map |-> acc, panic |-> FALSE]
    ELSE LET val == l[1][1]
             coeff == l[1][2]
             o == {e \in acc : e[1] = val}
             get == (CHOOSE e \in o : TRUE)[2]
         IN  IF coeff = FZero
             THEN canonical_fold(Tail(l), acc)
             ELSE IF o # {}
             THEN IF FAdd(get, coeff) # FZero
                  THEN canonical_fold(Tail(l), (acc \ o) \cup {<<val, FAdd(get, coeff)>>})
                  ELSE canonical_fold(Tail(l), acc \ o)
             ELSE IF coeff = FZero
             THEN [map |-> acc, panic |-> TRUE]
             ELSE canonical_fold(Tail(l), acc \cup {<<val, coeff>>})

\* a canonical form that keeps the first coefficient of a wire
RECURSIVE first_coefficient_fold(_, _)
first_coefficient_fold(l, acc) ==
    IF l = <<>>
    THEN acc
    ELSE first_coefficient_fold(Tail(l),
            IF l[1][2] = FZero \/ \E e \in acc : e[1] = l[1][1]
            THEN acc ELSE acc \cup {l[1]})

into_canonical_first_coefficient(l) == first_coefficient_fold(l, NoEntries)

\* LinComb::into_canonical
into_canonical(l) == canonical_fold(l, NoEntries).map

\* From<CanonicalLinComb> for LinComb: the entries in the order of the map,
\* ascending in the wire
RECURSIVE from_canonical(_)
from_canonical(map) ==
    IF map = {}
    THEN <<>>
    ELSE LET least == CHOOSE e \in map : \A d \in map : e[1] <= d[1]
         IN  <<least>> \o from_canonical(map \ {least})

\* LinComb::reduce
reduce(l) == from_canonical(into_canonical(l))

\* PartialEq for LinComb
eq(l, m) == into_canonical(l) = into_canonical(m)

\* Add<LinComb> for LinComb
add(l, m) == l \o m

\* Sub<LinComb> for LinComb
sub(l, m) == l \o [i \in 1..Len(m) |-> <<m[i][1], FSub(FZero, m[i][2])>>]

\* Mul<&T> for LinComb
mul(l, scalar) == [i \in 1..Len(l) |-> <<l[i][1], FMul(l[i][2], scalar)>>]

\* a division that multiplies by the scalar
div_by_product(l, scalar) == [panic |-> scalar = FZero, value |-> mul(l, scalar)]

\* Div<&T> for LinComb: the unwrap of the inverse panics when there is none
div(l, scalar) ==
    LET inverse == inverse_mul(scalar)
    IN  IF inverse.some
        THEN [panic |-> FALSE, value |-> mul(l, inverse.value)]
        ELSE [panic |-> TRUE, value |-> zero]

\* Option<LinComb>: None
NoLinComb == [some |-> FALSE, value |-> zero]

\* QuadComb::try_linear
try_linear(left, right) ==
    LET ls == try_summand(left)
        rs == try_summand(right)
    IN  IF ls.some /\ ls.var = One
        THEN [some |-> TRUE, value |-> mul(right, ls.coeff)]
        ELSE IF rs.some /\ rs.var = One
        THEN [some |-> TRUE, value |-> mul(left, rs.coeff)]
        ELSE IF is_zero(left) \/ is_zero(right)
        THEN [some |-> TRUE, value |-> zero]
        ELSE NoLinComb

\* PartialEq for QuadComb
QuadComb_eq(left, right, other_left, other_right) ==
    eq(left, other_left) /\ eq(right, other_right)

\* Display for FlatVariable
WireText(k) == IF k = One THEN "~one" ELSE "_" \o ToString(k)

\* Field::to_compact_dec_string
to_compact_dec_string(v) == ToString(v)

\* the texts of the terms joined by " + "
RECURSIVE join(_)
join(terms) ==
    IF terms = <<>> THEN ""
    ELSE IF Len(terms) = 1 THEN terms[1]
    ELSE terms[1] \o " + " \o join(Tail(terms))

\* Display for LinComb
display(l) ==
    IF is_zero(l)
    THEN "0"
    ELSE LET terms == from_canonical(into_canonical(l))
         IN  join([i \in 1..Len(terms) |->
                      to_compact_dec_string(terms[i][2]) \o " * " \o WireText(terms[i][1])])

\* no comparison, no form computed yet
NoLin == [l |-> zero, m |-> zero, op |-> "", out |-> <<>>]

LinIdle == lin = NoLin

LinInputs == [l : LinCombs(MaxTerms), m : LinCombs(MaxOther), op : {""}, out : {<<>>}]

\* l == m, l + zero == l, l - l == zero
Compare ==
    /\ lin.op = ""
    /\ lin' = [lin EXCEPT !.op = "eq",
                          !.out = [eq |-> eq(lin.l, lin.m),
                                   add_zero |-> eq(add(lin.l, zero), lin.l),
                                   sub_self |-> eq(sub(lin.l, lin.l), zero)]]
    /\ UNCHANGED <<cvars, uvars, slice, inline, remover, abi, json, folder, fcheck, literal>>

\* l.into_canonical(), l.reduce(), l.reduce().reduce()
Canonicalise ==
    /\ lin.op = ""
    /\ lin' = [lin EXCEPT !.op = "canonical",
                          !.out = [map |-> into_canonical(lin.l),
                                   panic |-> canonical_fold(lin.l, NoEntries).panic,
                                   reduced |-> reduce(lin.l),
                                   twice |-> reduce(reduce(lin.l))]]
    /\ UNCHANGED <<cvars, uvars, slice, inline, remover, abi, json, folder, fcheck, literal>>

\* (l * k) / k for a field element k
Scale(k) ==
    /\ lin.op = ""
    /\ LET product == mul(lin.l, k)
           quotient == div(product, k)
       IN  lin' = [lin EXCEPT !.op = "scale",
                              !.out = [k |-> k, product |-> product, quotient |-> quotient,
                                       back |-> ~quotient.panic /\ eq(quotient.value, lin.l)]]
    /\ UNCHANGED <<cvars, uvars, slice, inline, remover, abi, json, folder, fcheck, literal>>

\* try_linear on the QuadComb (l, m) and on its reduced form, which is equal
TryLinear ==
    /\ lin.op = ""
    /\ lin' = [lin EXCEPT !.op = "try_linear",
                          !.out = [linear |-> try_linear(lin.l, lin.m),
                                   reduced |-> try_linear(reduce(lin.l), reduce(lin.m)),
                                   equal |-> QuadComb_eq(lin.l, lin.m,
                                                         reduce(lin.l), reduce(lin.m))]]
    /\ UNCHANGED <<cvars, uvars, slice, inline, remover, abi, json, folder, fcheck, literal>>

\* l and m printed
Display ==
    /\ lin.op = ""
    /\ lin' = [lin EXCEPT !.op = "display",
                          !.out = [l |-> display(lin.l), m |-> display(lin.m),
                                   equal |-> eq(lin.l, lin.m)]]
    /\ UNCHANGED <<cvars, uvars, slice, inline, remover, abi, json, folder, fcheck, literal>>

(***************************************************************************)
(* static_analysis/variable_read_remover.rs: the reads of an array at an   *)
(* index that is not a literal, lowered by a Folder (typed_absy/folder.rs).*)
(***************************************************************************)
\* size of the arrays of the statements drawn as inputs
MaxArray == 3
\* number of fold_statement calls on one VariableReadRemover
MaxFold == 2

\* T::from(index) of a usize
from_usize(index) == index % Prime

\* a typed expression: its arm, its variant, the number or the identifier it
\* holds, the size and the inner type of an ArrayExpression (the sizes of the
\* nested arrays, none for an array of field elements), its operands
Expression(arm, k, n, size, ty, c) ==
    [arm |-> arm, k |-> k, n |-> n, size |-> size, ty |-> ty, c |-> c]

\* FieldElementExpression::Number
Number(n) == Expression("field", "Number", n, 0, <<>>, <<>>)

\* FieldElementExpression::Identifier
Identifier(id) == Expression("field", "Identifier", id, 0, <<>>, <<>>)

\* FieldElementExpression::Add
FieldAdd(e1, e2) == Expression("field", "Add", 0, 0, <<>>, <<e1, e2>>)

\* BooleanExpression::FieldEq
FieldEq(e1, e2) == Expression("boolean", "FieldEq", 0, 0, <<>>, <<e1, e2>>)

\* BooleanExpression::Or
Or(e1, e2) == Expression("boolean", "Or", 0, 0, <<>>, <<e1, e2>>)

\* ArrayExpressionInner::Identifier(id).annotate(ty, size)
ArrayIdentifier(id, ty, size) == Expression("array", "Identifier", id, size, ty, <<>>)

\* Select::select of the arm: the element type and size of an array read
\* out of an array of arrays are those of the inner type of the array
Select(arm, array, index) ==
    IF arm = "array"
    THEN Expression("array", "Select", 0, Head(array.ty), Tail(array.ty), <<array, index>>)
    ELSE Expression(arm, "Select", 0, 0, <<>>, <<array, index>>)

\* IfElse::if_else of the arm: an array has the type of the consequence
IfElse(arm, condition, consequence, alternative) ==
    IF arm = "array"
    THEN Expression("array", "IfElse", 0, consequence.size, consequence.ty,
                    <<condition, consequence, alternative>>)
    ELSE Expression(arm, "IfElse", 0, 0, <<>>, <<condition, consequence, alternative>>)

\* a typed statement: its variant, the variable it defines, declares or
\* iterates, its expressions, the statements of its body
Statement(k, v, e, body) == [k |-> k, v |-> v, e |-> e, body |-> body]

\* TypedStatement::Return
Return(expressions) == Statement("Return", 0, expressions, <<>>)

\* TypedStatement::Definition, of an identifier
Definition(v, e) == Statement("Definition", v, <<e>>, <<>>)

\* TypedStatement::Declaration
Declaration(v) == Statement("Declaration", v, <<>>, <<>>)

\* TypedStatement::Assertion
Assertion(e) == Statement("Assertion", 0, <<e>>, <<>>)

\* TypedStatement::For, its bounds left out: they are not folded
For(v, statements) == Statement("For", v, <<>>, statements)

\* (0..size).map(|index| FieldEq(i, Number(index))).fold(None, Or), which
\* starts at index 1 instead of 0
RECURSIVE or_chain_from_one(_, _)
or_chain_from_one(i, size) ==
    IF size <= 2
    THEN FieldEq(i, Number(from_usize(size - 1)))
    ELSE Or(or_chain_from_one(i, size - 1), FieldEq(i, Number(from_usize(size - 1))))

\* (0..size).map(|index| FieldEq(i, Number(index))).fold(None, Or) for a
\* size of at least 1: ((i == 0) || (i == 1)) || ... (i == size - 1)
RECURSIVE or_chain(_, _)
or_chain(i, size) ==
    IF size = 1
    THEN FieldEq(i, Number(from_usize(0)))
    ELSE Or(or_chain(i, size - 1), FieldEq(i, Number(from_usize(size - 1))))

\* (0..size).map(select).enumerate().rev().fold(None, if_else) from index on:
\* if i == index then a[index] else ... else a[size - 1]
RECURSIVE if_chain(_, _, _, _)
if_chain(arm, a, i, index) ==
    IF index = a.size - 1
    THEN Select(arm, a, Number(from_usize(index)))
    ELSE IfElse(arm, FieldEq(i, Number(from_usize(index))),
                Select(arm, a, Number(from_usize(index))),
                if_chain(arm, a, i, index + 1))

\* the result of folding an expression: the expression, the statements
\* pending in the remover, whether the fold panicked
Folded(e, statements, panic) == [e |-> e, statements |-> statements, panic |-> panic]

\* VariableReadRemover::select: a read at a literal is built again from the
\* array and the index as they are; for another index the assertion is
\* pushed and the chain returned, and the unwrap of a fold over no index
\* panics
select(statements, arm, a, i) ==
    IF i.k = "Number"
    THEN Folded(Select(arm, a, i), statements, FALSE)
    ELSE IF a.size = 0
         THEN Folded(Select(arm, a, i), statements, TRUE)
         ELSE Folded(if_chain(arm, a, i, 0),
                     Append(statements, Assertion(or_chain(i, a.size))),
                     FALSE)

\* fold_field_expression, fold_boolean_expression and fold_array_expression
\* of the remover: a Select goes to select, another variant has its operands
\* folded from left to right; an array keeps its size and type
RECURSIVE fold_expression(_, _), fold_expressions(_, _)
fold_expression(statements, e) ==
    IF e.k = "Select"
    THEN LET r == select(statements, e.arm, e.c[1], e.c[2])
         IN  IF e.arm = "array"
             THEN Folded([r.e EXCEPT !.size = e.size, !.ty = e.ty], r.statements, r.panic)
             ELSE r
    ELSE LET r == fold_expressions(statements, e.c)
         IN  Folded([e EXCEPT !.c = r.e], r.statements, r.panic)

\* .into_iter().map(|e| f.fold_expression(e)).collect()
fold_expressions(statements, es) ==
    IF es = <<>>
    THEN Folded(<<>>, statements, FALSE)
    ELSE LET h == fold_expression(statements, Head(es))
         IN  IF h.panic
             THEN Folded(<<>>, h.statements, TRUE)
             ELSE LET t == fold_expressions(h.statements, Tail(es))
                  IN  Folded(<<h.e>> \o t.e, t.statements, t.panic)

\* the result of folding statements: the statements returned, the
\* statements pending in the remover, whether the fold panicked
FoldedStatements(out, statements, panic) ==
    [out |-> out, statements |-> statements, panic |-> panic]

\* VariableReadRemover::fold_statement: the statement is folded by
\* folder::fold_statement (the body of a For through fold_statement of the
\* remover), then the pending statements are drained in front of it
RECURSIVE fold_statement(_, _), fold_statements(_, _)
fold_statement(statements, s) ==
    LET es == fold_expressions(statements, s.e)
        body == IF es.panic
                THEN FoldedStatements(<<>>, es.statements, TRUE)
                ELSE fold_statements(es.statements, s.body)
    IN  IF body.panic
        THEN FoldedStatements(<<>>, body.statements, TRUE)
        ELSE FoldedStatements(
                 body.statements \o <<[s EXCEPT !.e = es.e, !.body = body.out]>>,
                 <<>>, FALSE)

\* .into_iter().flat_map(|s| f.fold_statement(s)).collect()
fold_statements(statements, ss) ==
    IF ss = <<>>
    THEN FoldedStatements(<<>>, statements, FALSE)
    ELSE LET h == fold_statement(statements, Head(ss))
         IN  IF h.panic
             THEN FoldedStatements(<<>>, h.statements, TRUE)
             ELSE LET t == fold_statements(h.statements, Tail(ss))
                  IN  FoldedStatements(h.out \o t.out, t.statements, t.panic)

\* the indices of the reads drawn as inputs: a literal, the identifiers i, j
Indices == {Number(0), Identifier(0), Identifier(1)}

\* the arrays a of field elements, of every size
FieldArrays == {ArrayIdentifier(0, <<>>, size) : size \in 0..MaxArray}

\* the arrays aa of arrays of field elements, as many as they are long
NestedArrays == {ArrayIdentifier(1, <<size>>, size) : size \in 0..MaxArray}

\* a[0], a[i], a[j]
Reads == {Select("field", a, i) : a \in FieldArrays, i \in Indices}

\* aa[0], aa[i], aa[j]
ArrayReads == {Select("array", a, i) : a \in NestedArrays, i \in Indices}

\* aa[i][0], aa[i][j], ... and a[a[j]], ...
NestedReads ==
    {Select("field", a, i) : a \in ArrayReads, i \in Indices}
        \cup {Select("field", a, Select("field", a, i)) : a \in FieldArrays, i \in Indices}

\* a[i] + a[j], ...
Sums ==
    {FieldAdd(Select("field", a, i), Select("field", a, j)) :
        a \in FieldArrays, i \in Indices, j \in Indices}

\* the statements drawn as inputs
Statements ==
    {Definition(0, e) : e \in Indices \cup Reads \cup NestedReads \cup Sums
                                \cup FieldArrays \cup ArrayReads}
        \cup {Return(<<e>>) : e \in Reads}
        \cup {Assertion(FieldEq(e, Number(0))) : e \in Reads}
        \cup {Declaration(0)}
        \cup {For(1, <<Definition(0, e)>>) : e \in Reads}
        \cup {For(1, <<Definition(0, e), Return(<<e>>)>>) : e \in Reads}

\* no statement
NoStatement == Statement("", 0, <<>>, <<>>)

\* VariableReadRemover::new(), and nothing folded yet: the pending
\* statements, the statement of the last fold_statement call, what the call
\* returned, whether it panicked, the number of calls
NoRemover ==
    [statements |-> <<>>, s |-> NoStatement, out |-> <<>>, panic |-> FALSE, calls |-> 0]

RemoverIdle == remover = NoRemover

\* one fold_statement call of fold_function on the next statement s
FoldStatement(s) ==
    /\ remover.calls < MaxFold
    /\ ~remover.panic
    /\ LET r == fold_statement(remover.statements, s)
       IN  remover' = [statements |-> r.statements, s |-> s, out |-> r.out,
                       panic |-> r.panic, calls |-> remover.calls + 1]
    /\ UNCHANGED <<cvars, uvars, slice, inline, lin, abi, json, folder, fcheck, literal>>

(***************************************************************************)
(* typed_absy/mod.rs: TypedProgram::abi on the typed main module.          *)
(***************************************************************************)
\* number of parameters of the main functions drawn
MaxParams == 2

\* AbiInput { name, public, ty }
AbiInput(name, public, ty) == [name |-> name, public |-> public, ty |-> ty]

\* Abi { inputs, outputs }, or the panic of abi()
Abi(inputs, outputs) == [panic |-> "", inputs |-> inputs, outputs |-> outputs]

AbiPanic(message) == [panic |-> message, inputs |-> <<>>, outputs |-> <<>>]

\* an abi() that copies `private` into `public`
abi_public_is_private(functions) ==
    {IF e.sym.kind = "Here"
     THEN Abi([i \in 1..Len(e.sym.arguments) |->
                  AbiInput(e.sym.arguments[i].id, e.sym.arguments[i].private,
                           e.sym.arguments[i].ty)],
              e.sym.signature.outputs)
     ELSE AbiPanic("internal error: entered unreachable code") :
         e \in {e \in functions : e.key.id = "main"}}

\* TypedProgram::abi on the functions of the main module: what it returns
\* for each entry that `find` can yield, the map being a HashMap; without
\* such an entry the unwrap panics
abi_of(functions) ==
    IF {e \in functions : e.key.id = "main"} = {}
    THEN {AbiPanic("called Option::unwrap() on a None value")}
    ELSE {IF e.sym.kind = "Here"
          THEN Abi([i \in 1..Len(e.sym.arguments) |->
                       AbiInput(e.sym.arguments[i].id, ~e.sym.arguments[i].private,
                                e.sym.arguments[i].ty)],
                   e.sym.signature.outputs)
          ELSE AbiPanic("internal error: entered unreachable code") :
              e \in {e \in functions : e.key.id = "main"}}

\* the parameter lists of the main functions drawn
RECURSIVE AbiParameterLists(_)
AbiParameterLists(n) ==
    IF n = 0
    THEN {<<>>}
    ELSE AbiParameterLists(n - 1) \cup
         {Append(ps, [id |-> id, ty |-> ty, private |-> private]) :
             ps \in {ps \in AbiParameterLists(n - 1) : Len(ps) = n - 1},
             id \in VarNames, ty \in {Field, Bool}, private \in BOOLEAN}

\* a checked function: its parameters, its signature made of their types
AbiFunction(arguments, outputs) ==
    [arguments |-> arguments,
     signature |-> [inputs |-> [i \in 1..Len(arguments) |-> arguments[i].ty],
                    outputs |-> outputs],
     returns |-> <<>>]

\* the symbols named main of the main modules drawn: a function defined in
\* the module (its parameters of distinct names), a function imported from
\* module A, an embed
AbiMains ==
    {Here(AbiFunction(arguments, outputs)) :
        arguments \in {ps \in AbiParameterLists(MaxParams) :
                          \A i, j \in 1..Len(ps) : ps[i].id = ps[j].id => i = j},
        outputs \in {<<>>, <<Field>>, <<Field, Bool>>}}
        \cup {There(FunctionKey("main", [inputs |-> <<>>, outputs |-> <<Field>>]), "A")}
        \cup {Flat([inputs |-> <<Bool>>, outputs |-> <<Field>>])}

\* the key under which check_symbol_declaration puts a symbol named main
AbiKey(sym) ==
    FunctionKey("main", IF sym.kind = "There" THEN sym.key.signature ELSE sym.signature)

\* the other functions of the main modules drawn
AbiOthers ==
    {{}, {[key |-> FunctionKey("f", [inputs |-> <<Bool>>, outputs |-> <<>>]),
           sym |-> Here(AbiFunction(<<[id |-> "b", ty |-> Bool, private |-> TRUE]>>, <<>>))]}}

\* the typed main modules that Checker::check accepts: check_single_main
\* has found one function named main
AbiPrograms ==
    {functions \in {{[key |-> AbiKey(sym), sym |-> sym]} \cup others :
                       sym \in AbiMains, others \in AbiOthers} :
        check_single_main(functions).ok}

\* no typed program
NoAbi == [functions |-> {}, done |-> FALSE, out |-> AbiPanic("")]

AbiIdle == abi = NoAbi

\* typed_ast.abi()
AbiCall ==
    /\ ~abi.done
    /\ \E out \in abi_of(abi.functions) : abi' = [abi EXCEPT !.done = TRUE, !.out = out]
    /\ UNCHANGED <<cvars, uvars, slice, inline, lin, remover, json, folder, fcheck, literal>>

(***************************************************************************)
(* The ABI as JSON (typed_absy/abi.rs): Abi and AbiInput derive Serialize  *)
(* and Deserialize, the type of an input is flattened into its object.     *)
(* A JSON text is the sequence of its tokens, punctuation between members  *)
(* and whitespace left out.  The serialisation of Type is the format of    *)
(* the ABI projection: field, bool, u8, u16, u32, array with components    *)
(* size and element type, struct with components name and members.         *)
(***************************************************************************)
\* the deepest nesting of array and struct types drawn
MaxTypeDepth == 2

\* the largest array size drawn
MaxAbiSize == 2

\* Type::Uint(bitwidth)
Uint(bitwidth) == [k |-> "uint", loc |-> <<bitwidth>>, mem |-> <<>>]

UBitwidths == {8, 16, 32}

\* Type::Array(ArrayType::new(ty, size))
ArrayType(ty, size) == [k |-> "array", loc |-> <<size>>, mem |-> <<ty>>]

\* StructMember::new(id, ty)
StructMember(id, ty) == [id |-> id, ty |-> ty]

\* the module of a struct type read from JSON: the text does not carry it
DefaultModule == ""

RECURSIVE ser_type(_)
RECURSIVE ser_members(_)
\* Serialize for Type, the members of the enclosing object
ser_type(ty) ==
    IF ty.k = "uint"
    THEN <<"type", "u" \o ToString(ty.loc[1])>>
    ELSE IF ty.k = "array"
    THEN <<"type", "array", "components", "{", "size", ToString(ty.loc[1])>>
             \o ser_type(ty.mem[1]) \o <<"}">>
    ELSE IF ty.k = "struct"
    THEN <<"type", "struct", "components", "{", "name", ty.loc[2], "members", "[">>
             \o ser_members(ty.mem) \o <<"]", "}">>
    ELSE <<"type", ty.k>>

\* Serialize for Vec<StructMember>
ser_members(members) ==
    IF members = <<>>
    THEN <<>>
    ELSE <<"{", "name", Head(members).id>> \o ser_type(Head(members).ty) \o <<"}">>
             \o ser_members(Tail(members))

\* Serialize for Vec<AbiInput>: name, public, then the flattened type
RECURSIVE ser_inputs(_)
ser_inputs(inputs) ==
    IF inputs = <<>>
    THEN <<>>
    ELSE <<"{", "name", Head(inputs).name,
           "public", IF Head(inputs).public THEN "true" ELSE "false">>
             \o ser_type(Head(inputs).ty) \o <<"}">> \o ser_inputs(Tail(inputs))

\* Serialize for Vec<Type>
RECURSIVE ser_outputs(_)
ser_outputs(outputs) ==
    IF outputs = <<>>
    THEN <<>>
    ELSE <<"{">> \o ser_type(Head(outputs)) \o <<"}">> \o ser_outputs(Tail(outputs))

\* serde_json::to_string(&abi)
ser_abi(x) ==
    <<"{", "inputs", "[">> \o ser_inputs(x.inputs)
        \o <<"]", "outputs", "[">> \o ser_outputs(x.outputs) \o <<"]", "}">>

\* what is left of a text after its first n tokens
Drop(toks, n) == SubSeq(toks, n + 1, Len(toks))

\* the first n tokens of a text are the tokens expected
Starts(toks, expected) ==
    /\ Len(toks) >= Len(expected)
    /\ SubSeq(toks, 1, Len(expected)) = expected

\* a text that does not parse
NoParse == [ok |-> FALSE, val |-> <<>>, rest |-> <<>>]

Parsed(val, rest) == [ok |-> TRUE, val |-> <<val>>, rest |-> rest]

RECURSIVE de_type(_)
RECURSIVE de_members(_)
\* Deserialize for Type
de_type(toks) ==
    IF ~(Len(toks) >= 2 /\ toks[1] = "type")
    THEN NoParse
    ELSE LET kind == toks[2]
             r == Drop(toks, 2)
         IN  IF kind = "field" THEN Parsed(Field, r)
             ELSE IF kind = "bool" THEN Parsed(Bool, r)
             ELSE IF \E w \in UBitwidths : kind = "u" \o ToString(w)
             THEN Parsed(Uint(CHOOSE w \in UBitwidths : kind = "u" \o ToString(w)), r)
             ELSE IF kind = "array"
             THEN IF ~(/\ Starts(r, <<"components", "{", "size">>)
                       /\ Len(r) >= 4
                       /\ \E n \in 0..(MaxAbiSize + 1) : ToString(n) = r[4])
                  THEN NoParse
                  ELSE LET size == CHOOSE n \in 0..(MaxAbiSize + 1) : ToString(n) = r[4]
                           inner == de_type(Drop(r, 4))
                       IN  IF inner.ok /\ Starts(inner.rest, <<"}">>)
                           THEN Parsed(ArrayType(inner.val[1], size), Drop(inner.rest, 1))
                           ELSE NoParse
             ELSE IF kind = "struct"
             THEN IF ~(/\ Starts(r, <<"components", "{", "name">>)
                       /\ Len(r) >= 6
                       /\ SubSeq(r, 5, 6) = <<"members", "[">>)
                  THEN NoParse
                  ELSE LET members == de_members(Drop(r, 6))
                       IN  IF members.ok /\ Starts(members.rest, <<"]", "}">>)
                           THEN Parsed(StructType(DefaultModule, r[4], members.val[1]),
                                       Drop(members.rest, 2))
                           ELSE NoParse
             ELSE NoParse

\* Deserialize for Vec<StructMember>
de_members(toks) ==
    IF ~Starts(toks, <<"{", "name">>) \/ Len(toks) < 3
    THEN Parsed(<<>>, toks)
    ELSE LET ty == de_type(Drop(toks, 3))
         IN  IF ~(ty.ok /\ Starts(ty.rest, <<"}">>))
             THEN NoParse
             ELSE LET rest == de_members(Drop(ty.rest, 1))
                  IN  IF rest.ok
                      THEN Parsed(<<StructMember(toks[3], ty.val[1])>> \o rest.val[1],
                                  rest.rest)
                      ELSE NoParse

\* Deserialize for Vec<AbiInput>
RECURSIVE de_inputs(_)
de_inputs(toks) ==
    IF ~Starts(toks, <<"{", "name">>)
    THEN Parsed(<<>>, toks)
    ELSE IF ~(/\ Len(toks) >= 5
              /\ toks[4] = "public"
              /\ toks[5] \in {"true", "false"})
    THEN NoParse
    ELSE LET ty == de_type(Drop(toks, 5))
         IN  IF ~(ty.ok /\ Starts(ty.rest, <<"}">>))
             THEN NoParse
             ELSE LET rest == de_inputs(Drop(ty.rest, 1))
                  IN  IF rest.ok
                      THEN Parsed(<<AbiInput(toks[3], toks[5] = "true", ty.val[1])>>
                                      \o rest.val[1], rest.rest)
                      ELSE NoParse

\* Deserialize for Vec<Type>
RECURSIVE de_outputs(_)
de_outputs(toks) ==
    IF ~Starts(toks, <<"{">>)
    THEN Parsed(<<>>, toks)
    ELSE LET ty == de_type(Drop(toks, 1))
         IN  IF ~(ty.ok /\ Starts(ty.rest, <<"}">>))
             THEN NoParse
             ELSE LET rest == de_outputs(Drop(ty.rest, 1))
                  IN  IF rest.ok
                      THEN Parsed(<<ty.val[1]>> \o rest.val[1], rest.rest)
                      ELSE NoParse

\* serde_json::from_str::<Abi>(json)
de_abi(toks) ==
    IF ~Starts(toks, <<"{", "inputs", "[">>)
    THEN NoParse
    ELSE LET inputs == de_inputs(Drop(toks, 3))
         IN  IF ~(inputs.ok /\ Starts(inputs.rest, <<"]", "outputs", "[">>))
             THEN NoParse
             ELSE LET outputs == de_outputs(Drop(inputs.rest, 3))
                  IN  IF outputs.ok /\ outputs.rest = <<"]", "}">>
                      THEN Parsed(Abi(inputs.val[1], outputs.val[1]), <<>>)
                      ELSE NoParse

\* the types drawn: primitive types, arrays and structs nested to depth n
PrimitiveTypes == {Field, Bool} \cup {Uint(w) : w \in UBitwidths}

StructModules == {DefaultModule, "main"}

MemberLists(T) ==
    {<<>>} \cup {<<StructMember("a", t)>> : t \in T}
           \cup {<<StructMember("a", t), StructMember("b", Bool)>> : t \in T}

RECURSIVE AbiTypes(_)
AbiTypes(n) ==
    IF n = 0
    THEN PrimitiveTypes
    ELSE LET T == AbiTypes(n - 1)
         IN  T \cup {ArrayType(t, size) : t \in T, size \in 1..MaxAbiSize}
               \cup {StructType(m, "Foo", ms) : m \in StructModules, ms \in MemberLists(T)}

\* the values drawn: at most one input and one output
AbiValues(depth) ==
    {Abi(inputs, outputs) :
        inputs \in {<<>>} \cup {<<AbiInput("a", public, ty)>> :
                                   public \in BOOLEAN, ty \in AbiTypes(depth)},
        outputs \in {<<>>} \cup {<<ty>> : ty \in AbiTypes(depth - 1)}}

NoJson == [x |-> Abi(<<>>, <<>>), stage |-> "idle", text |-> <<>>,
           de |-> NoParse, text2 |-> <<>>]

JsonIdle == json = NoJson

\* serde_json::to_string(&abi)
JsonSerialize ==
    /\ json.stage = "init"
    /\ json' = [json EXCEPT !.stage = "serialized", !.text = ser_abi(json.x)]
    /\ UNCHANGED <<cvars, uvars, slice, inline, lin, remover, abi, folder, fcheck, literal>>

\* serde_json::from_str(json)
JsonDeserialize ==
    /\ json.stage = "serialized"
    /\ json' = [json EXCEPT !.stage = "deserialized", !.de = de_abi(json.text)]
    /\ UNCHANGED <<cvars, uvars, slice, inline, lin, remover, abi, folder, fcheck, literal>>

\* serde_json::to_string(&de_abi)
JsonReserialize ==
    /\ json.stage = "deserialized"
    /\ json.de.ok
    /\ json' = [json EXCEPT !.stage = "reserialized", !.text2 = ser_abi(json.de.val[1])]
    /\ UNCHANGED <<cvars, uvars, slice, inline, lin, remover, abi, folder, fcheck, literal>>

(***************************************************************************)
(* The Folder trait (typed_absy/folder.rs) with its default methods, on    *)
(* the typed expressions and statements above.  A folder is the set of     *)
(* methods it overrides: a fold_name that renames every identifier, a      *)
(* fold_field_expression that counts its calls in the expression it        *)
(* returns (in size, which a field expression does not use) and goes on    *)
(* with the default fold_field_expression.                                 *)
(***************************************************************************)
\* the identifiers of the programs folded
FolderNames == {0, 1}

\* a folder and the methods it overrides
FolderImpl(name, field) == [fold_name |-> name, fold_field_expression |-> field]

\* the identifier the overriding fold_name returns
new_name(n) == n + Cardinality(FolderNames)

\* the expression the overriding fold_field_expression returns
visited(e) == [e EXCEPT !.size = @ + 1]

\* Folder::fold_name: n by default
fold_name(f, n) == IF f.fold_name THEN new_name(n) ELSE n

\* Folder::fold_variable
fold_variable(f, v) == fold_name(f, v)

\* Parameter { id, private }
Parameter(id, private) == [id |-> id, private |-> private]

\* Folder::fold_parameter
fold_parameter(f, p) == [p EXCEPT !.id = fold_variable(f, p.id)]

\* fold_assignee, of TypedAssignee::Identifier
fold_assignee(f, a) == fold_variable(f, a)

\* Folder::fold_field_expression, fold_boolean_expression and
\* fold_array_expression with the default functions of the same names: an
\* identifier goes through fold_name, the operands of another variant are
\* folded from left to right, an array keeps its size and type
RECURSIVE folder_fold_expression(_, _)
folder_fold_expression(f, e) ==
    LET folded == IF e.k = "Identifier"
                  THEN [e EXCEPT !.n = fold_name(f, e.n)]
                  ELSE [e EXCEPT !.c = [i \in 1..Len(e.c) |->
                                           folder_fold_expression(f, e.c[i])]]
    IN  IF e.arm = "field" /\ f.fold_field_expression
        THEN visited(folded)
        ELSE folded

\* TypedStatement::For(v, from, to, statements), the bounds in e
ForRange(v, from, to, statements) == Statement("For", v, <<from, to>>, statements)

\* folder::fold_statement: the bounds of a For are moved as they are
RECURSIVE folder_fold_statement(_, _)
folder_fold_statement(f, s) ==
    IF s.k = "Definition"
    THEN <<[s EXCEPT !.v = fold_assignee(f, s.v),
                     !.e = <<folder_fold_expression(f, s.e[1])>>]>>
    ELSE IF s.k = "Declaration"
    THEN <<[s EXCEPT !.v = fold_variable(f, s.v)]>>
    ELSE IF s.k = "For"
    THEN <<[s EXCEPT !.v = fold_variable(f, s.v),
                     !.body = [i \in 1..Len(s.body) |->
                                  folder_fold_statement(f, s.body[i])[1]]]>>
    ELSE <<[s EXCEPT !.e = [i \in 1..Len(s.e) |-> folder_fold_expression(f, s.e[i])]]>>

\* TypedFunction { arguments, statements, signature }
TypedFunction(arguments, statements) ==
    [arguments |-> arguments, statements |-> statements]

\* folder::fold_function
fold_function(f, fun) ==
    [fun EXCEPT !.arguments = [i \in 1..Len(fun.arguments) |->
                                  fold_parameter(f, fun.arguments[i])],
                !.statements = [i \in 1..Len(fun.statements) |->
                                   folder_fold_statement(f, fun.statements[i])[1]]]

\* TypedFunctionSymbol::Here(fun)
HereFunction(fun) == [kind |-> "Here", fun |-> fun]

\* TypedFunctionSymbol::There(key, module_id): its function is in the module
\* it names
ThereFunction == [kind |-> "There", fun |-> TypedFunction(<<>>, <<>>)]

\* folder::fold_function_symbol: only a function defined here is folded
fold_function_symbol(f, s) ==
    IF s.kind = "Here" THEN HereFunction(fold_function(f, s.fun)) ELSE s

\* folder::fold_module: functions is the symbol of every key
fold_module(f, m) == [key \in DOMAIN m |-> fold_function_symbol(f, m[key])]

\* TypedProgram { modules, main }
TypedProgram(main, program_modules) == [main |-> main, modules |-> program_modules]

\* folder::fold_program
fold_program(f, p) ==
    [p EXCEPT !.modules = [module_id \in DOMAIN p.modules |->
                              fold_module(f, p.modules[module_id])]]

\* the field expressions drawn: 0, x, y, x + 0, a[y], a[x + y]
FolderFields ==
    LET ids == {Identifier(n) : n \in FolderNames}
        a == ArrayIdentifier(0, <<>>, MaxFold)
    IN  {Number(0)} \cup ids
          \cup {FieldAdd(x, Number(0)) : x \in ids}
          \cup {Select("field", a, x) : x \in ids}
          \cup {Select("field", a, FieldAdd(Identifier(0), Identifier(1)))}

\* the statements of a For body drawn
FolderBodies ==
    {Definition(v, e) : v \in FolderNames, e \in {Number(0), Identifier(0)}}
        \cup {Assertion(FieldEq(e, Number(0))) : e \in {Identifier(1)}}

\* the statements drawn
FolderStatements ==
    {Definition(v, e) : v \in FolderNames, e \in FolderFields}
        \cup {Declaration(v) : v \in FolderNames}
        \cup {Return(<<e>>) : e \in FolderFields}
        \cup {Assertion(FieldEq(e, Number(0))) : e \in FolderFields}
        \cup {ForRange(1, from, to, <<s>>) :
                 from \in {Number(0), Identifier(0)},
                 to \in {Number(1), Identifier(0)},
                 s \in FolderBodies}

\* the functions drawn: at most one parameter, one or two statements
FolderFunctions ==
    {TypedFunction(arguments, statements) :
        arguments \in {<<>>, <<Parameter(0, TRUE)>>},
        statements \in {<<s>> : s \in FolderStatements}
                          \cup {<<s, Return(<<Identifier(0)>>)>> : s \in FolderStatements}}

\* the programs drawn: main defined in the main module, alone or next to an
\* imported function
FolderPrograms ==
    {TypedProgram("main", [module_id \in {"main"} |-> m]) :
        m \in {[key \in {"main"} |-> HereFunction(fun)] : fun \in FolderFunctions}
                 \cup {[key \in {"main", "f"} |->
                           IF key = "main" THEN HereFunction(fun) ELSE ThereFunction] :
                          fun \in FolderFunctions}}

\* the folders drawn: one that overrides nothing, one that overrides
\* fold_name only, one that overrides fold_field_expression only
FolderImpls == {FolderImpl(FALSE, FALSE), FolderImpl(TRUE, FALSE), FolderImpl(FALSE, TRUE)}

NoFolder == [f |-> FolderImpl(FALSE, FALSE),
             p |-> TypedProgram("", <<>>),
             out |-> TypedProgram("", <<>>),
             done |-> FALSE]

FolderIdle == folder = NoFolder

\* f.fold_program(p)
FoldProgram ==
    /\ ~folder.done
    /\ folder # NoFolder
    /\ folder' = [folder EXCEPT !.done = TRUE, !.out = fold_program(folder.f, folder.p)]
    /\ UNCHANGED <<cvars, uvars, slice, inline, lin, remover, abi, json, fcheck, literal>>

(***************************************************************************)
(* check_function on a whole function body: the statements are given at    *)
(* once, check_statement is called on each of them in turn, and a For      *)
(* statement checks the statements of its body itself.                     *)
(***************************************************************************)
\* the most statements in the body of a function or of a For statement
MaxBody == 2

\* an untyped statement: its variant, the variable it declares or iterates,
\* its expression, the statements of its body
UStatement(k, id, e, body) == [k |-> k, id |-> id, e |-> e, body |-> body]

\* Statement::Return of no expression
UReturn == UStatement("Return", "", Lit(NoneT), <<>>)

\* Statement::Declaration of a field variable
UDeclaration(id) == UStatement("Declaration", id, Lit(NoneT), <<>>)

\* Statement::Assertion
UAssertion(e) == UStatement("Assertion", "", e, <<>>)

\* Statement::For of a field variable between two field literals
UFor(id, body) == UStatement("For", id, Lit(Field), body)

\* what check_statement returns, Ok or Err(errs), and the scope and level it
\* leaves in the checker
Checked(ok, errs, scope, level) ==
    [ok |-> ok, errs |-> errs, scope |-> scope, level |-> level]

\* for stat in statements { self.check_statement(stat, module_id, types)? }
RECURSIVE check_body(_, _, _)
RECURSIVE check_statement(_, _, _)
check_body(statements, scope, level) ==
    IF statements = <<>>
    THEN Checked(TRUE, <<>>, scope, level)
    ELSE LET h == check_statement(Head(statements), scope, level)
         IN  IF h.ok
             THEN check_body(Tail(statements), h.scope, h.level)
             ELSE h

\* Checker::check_statement, no function being declared in the module
check_statement(s, scope, level) ==
    IF s.k = "Declaration"
    THEN LET ins == insert_into_scope(scope, level, s.id, Field)
         IN  IF ins.ret
             THEN Checked(TRUE, <<>>, ins.scope, level)
             ELSE Checked(FALSE,
                          <<Error("Duplicate declaration for variable named", s.id, "")>>,
                          scope, level)
    ELSE IF s.k = "Assertion"
    THEN LET r == CHOOSE r \in check_expression(s.e, scope, {}) : TRUE
         IN  IF ~r.ok
             THEN Checked(FALSE, <<r.err>>, scope, level)
             ELSE IF r.ty # Bool
             THEN Checked(FALSE, <<Error("Expected to be of type bool, found", "", "")>>,
                          scope, level)
             ELSE Checked(TRUE, <<>>, scope, level)
    ELSE IF s.k = "For"
    THEN LET ins == insert_into_scope(scope, level + 1, s.id, Field)
             body == check_body(s.body, ins.scope, level + 1)
         IN  IF body.ok
             THEN Checked(TRUE, <<>>, exit_scope(body.scope, body.level), body.level - 1)
             ELSE body
    ELSE Checked(TRUE, <<>>, scope, level)

\* the statement loop of check_function: errors.extend(e) for every
\* statement that returns Err(e), a second Return statement is an error
RECURSIVE check_function_statements(_, _, _, _)
check_function_statements(statements, scope, level, found_return) ==
    IF statements = <<>>
    THEN IF found_return
         THEN <<>>
         ELSE <<Error("Expected a return statement", "", "")>>
    ELSE LET s == Head(statements)
             r == check_statement(s, scope, level)
         IN  (IF s.k = "Return" /\ found_return
              THEN <<Error("Expected a single return statement", "", "")>>
              ELSE <<>>)
                 \o r.errs
                 \o check_function_statements(Tail(statements), r.scope, r.level,
                                              found_return \/ s.k = "Return")

\* Checker::check_function of a function of no parameter and no output:
\* enter_scope, then the statements
check_function(statements) ==
    check_function_statements(statements, {}, 1, FALSE)

\* the statements drawn for the body of a For statement: assertions of an
\* identifier that is never declared, of a literal, a declaration
BodyLeaves ==
    {UAssertion(Id(n)) : n \in VarNames} \cup {UAssertion(Lit(Bool)), UDeclaration("c")}

RECURSIVE BodyLists(_, _)
BodyLists(S, n) ==
    IF n = 0
    THEN {<<>>}
    ELSE LET shorter == BodyLists(S, n - 1)
         IN  shorter \cup {Append(ss, s) : ss \in shorter, s \in S}

\* how often a variable is declared in statements
RECURSIVE declarations_in(_)
declarations_in(statements) ==
    IF statements = <<>>
    THEN 0
    ELSE (IF Head(statements).k = "Declaration" THEN 1 ELSE 0)
             + declarations_in(Head(statements).body)
             + declarations_in(Tail(statements))

\* the function bodies drawn: leaves and For statements of leaves, then a
\* Return statement; no variable is declared twice
FunctionBodies(n) ==
    LET fors == {UFor("i", body) : body \in BodyLists(BodyLeaves, n) \ {<<>>}}
    IN  {Append(ss, UReturn) :
            ss \in {b \in BodyLists(BodyLeaves \cup fors, n) : declarations_in(b) <= 1}}

\* the scopes a statement is checked in: the level of the checker, and
\* variables of distinct names declared at levels up to it
StatementLevels == 1..MaxBody

StatementScopes(level) ==
    {scope \in SUBSET {ScopedVariable(id, ty, l) :
                          id \in {"i", "c"}, ty \in {Field, Bool}, l \in 1..level} :
        \A v, w \in scope : v.id = w.id => v = w}

\* the For statements drawn: of the variable i, over leaves, declarations
\* of i and c, and one more For statement of i or c
ForStatements(n) ==
    LET leaves == BodyLeaves \cup {UDeclaration("i"), UAssertion(Id("i"))}
        inner == {UFor(id, body) : id \in {"i", "c"}, body \in BodyLists(leaves, 1)}
    IN  {UFor("i", body) : body \in BodyLists(leaves \cup inner, n)}

\* no statement checked yet
NotCheckedStatement == Checked(FALSE, <<>>, {}, 0)

NoFcheck == [statements |-> <<>>, done |-> FALSE, errors |-> <<>>,
             scope |-> {}, level |-> 0, checked |-> NotCheckedStatement]

FcheckIdle == fcheck = NoFcheck

\* self.check_function(funct, module_id, types)
CheckFunction ==
    /\ ~fcheck.done
    /\ fcheck.statements # <<>>
    /\ fcheck' = [fcheck EXCEPT !.done = TRUE, !.errors = check_function(fcheck.statements)]
    /\ UNCHANGED <<cvars, uvars, slice, inline, lin, remover, abi, json, folder, literal>>

\* self.check_statement(stat, module_id, types), the checker being at
\* fcheck.level with the variables fcheck.scope
CheckStatement ==
    /\ ~fcheck.done
    /\ fcheck.statements # <<>>
    /\ fcheck' = [fcheck EXCEPT !.done = TRUE,
                                !.checked = check_statement(Head(fcheck.statements),
                                                            fcheck.scope, fcheck.level)]
    /\ UNCHANGED <<cvars, uvars, slice, inline, lin, remover, abi, json, folder, literal>>

(***************************************************************************)
(* Inline array literals [e1, ...a, e2]: check_spread_or_expression on     *)
(* each element, then the type of the first expression for all of them.    *)
(* An element is given by the type its expression checks to, NoneT for an  *)
(* expression whose check returns an error.                                *)
(***************************************************************************)
\* the most elements of a literal
MaxElements == 2

\* SpreadOrExpression::Spread of an expression that checks to type ty
SpreadOf(ty) == [spread |-> TRUE, ty |-> ty]

\* SpreadOrExpression::Expression of an expression that checks to type ty
ExpressionOf(ty) == [spread |-> FALSE, ty |-> ty]

\* what checking an element or a literal gives: Ok with the types of the
\* expressions, or the type and size of the array; Err(err); a panic
LiteralResult(status, tys, ty, size, err) ==
    [status |-> status, tys |-> tys, ty |-> ty, size |-> size, err |-> err]

LiteralPanic(message) == LiteralResult("panic", <<>>, NoneT, 0, Error(message, "", ""))

LiteralErr(err) == LiteralResult("err", <<>>, NoneT, 0, err)

\* Checker::check_spread_or_expression: the result of a spread is unwrapped
\* before it is returned
check_spread_or_expression(el) ==
    IF el.ty = NoneT
    THEN LiteralErr(Error("Identifier is undefined", "", ""))
    ELSE IF ~el.spread
    THEN LiteralResult("ok", <<el.ty>>, NoneT, 0, NoError)
    ELSE IF el.ty.k = "array"
    THEN LiteralResult("ok", [i \in 1..el.ty.loc[1] |-> el.ty.mem[1]], NoneT, 0, NoError)
    ELSE LiteralPanic("called Result::unwrap() on an Err value: Expected spread operator to apply on array, found")

\* the element loop of Expression::InlineArray: the first element that does
\* not return Ok ends it
RECURSIVE check_elements(_)
check_elements(elements) ==
    IF elements = <<>>
    THEN LiteralResult("ok", <<>>, NoneT, 0, NoError)
    ELSE LET h == check_spread_or_expression(Head(elements))
         IN  IF h.status # "ok"
             THEN h
             ELSE LET t == check_elements(Tail(elements))
                  IN  IF t.status # "ok"
                      THEN t
                      ELSE LiteralResult("ok", h.tys \o t.tys, NoneT, 0, NoError)

\* Checker::check_expression of Expression::InlineArray: the type of the
\* literal is inferred from expressions_checked.get(0).unwrap()
check_inline_array(elements) ==
    LET checked == check_elements(elements)
    IN  IF checked.status # "ok"
        THEN checked
        ELSE IF checked.tys = <<>>
        THEN LiteralPanic("called Option::unwrap() on a None value")
        ELSE LET inferred_type == checked.tys[1]
             IN  IF \E i \in 1..Len(checked.tys) : checked.tys[i] # inferred_type
                 THEN LiteralErr(Error("Expected to have type, but type is", "", ""))
                 ELSE LiteralResult("ok", checked.tys, ArrayType(inferred_type, Len(checked.tys)),
                                    Len(checked.tys), NoError)

\* the types the expressions of the elements check to
ElementTypes ==
    {Field, Bool, NoneT} \cup {ArrayType(Field, size) : size \in 0..MaxElements}
                         \cup {ArrayType(Bool, 1)}

Elements == {SpreadOf(ty) : ty \in ElementTypes} \cup {ExpressionOf(ty) : ty \in ElementTypes}

RECURSIVE ElementLists(_)
ElementLists(n) ==
    IF n = 0
    THEN {<<>>}
    ELSE LET shorter == ElementLists(n - 1)
         IN  shorter \cup {Append(es, el) : es \in shorter, el \in Elements}

NoLiteral == [elements |-> <<>>, done |-> FALSE, out |-> LiteralErr(NoError)]

LiteralIdle == literal = NoLiteral

\* self.check_expression(Expression::InlineArray(elements), module_id, types)
CheckInlineArray ==
    /\ ~literal.done
    /\ literal' = [literal EXCEPT !.done = TRUE, !.out = check_inline_array(literal.elements)]
    /\ UNCHANGED <<cvars, uvars, slice, inline, lin, remover, abi, json, folder, fcheck>>

(***************************************************************************)
(* Specifications.                                                         *)
(***************************************************************************)
\* State::new(program.modules) and Checker::new(), nothing checked yet
InitChecker ==
    /\ modules = ModuleIds
    /\ typed_modules = [m \in ModuleIds |-> NoModule]
    /\ types = [m \in ModuleIds |-> NoTypes]
    /\ stack = <<>>
    /\ outcome = [status |-> "init", errors |-> <<>>, n |-> 0, panic |-> ""]
    /\ consumed = [decls |-> 0, fns |-> 0, stmts |-> 0]
    /\ last = NoLast

\* SymbolUnifier::default()
InitUnifier ==
    /\ unifier = EmptyUnifier
    /\ ulog = <<>>
    /\ uprev = EmptyUnifier

\* nothing is given to the single functions
InitIdle == SliceIdle /\ InlineIdle /\ LinIdle /\ RemoverIdle /\ AbiIdle /\ JsonIdle /\ FolderIdle /\ FcheckIdle /\ LiteralIdle

Init == InitChecker /\ InitUnifier /\ InitIdle

NextUnifier ==
    \/ \E id \in SymNames : InsertType(id)
    \/ \E id \in SymNames, sig \in Signatures : InsertFunction(id, sig)

(* The inputs drawn when functions are checked on their own: one module    *)
(* of function declarations, with every statement kind but calls.          *)
FunctionParameterLists ==
    {<<>>} \cup {<<[id |-> "a", ty |-> ty, private |-> FALSE]>> : ty \in {UField, UBool}}

FunctionExpressions == {Lit(Bool), Id("a"), Id("b")}

FunctionReturnLists == {<<>>, <<Lit(Field)>>, <<Lit(Bool)>>, <<Id("a")>>}

NextFunction ==
    \/ CheckProgram
    \/ \E arguments \in FunctionParameterLists, outputs \in {<<>>, <<UField>>} :
          FunctionBegin("f", arguments, outputs)
    \/ \E es \in FunctionReturnLists : StmtReturn(es)
    \/ \E id \in VarNames, ty \in {UField, UBool} : StmtDeclaration(id, ty)
    \/ \E e \in FunctionExpressions : StmtAssertion(e)
    \/ \E id \in VarNames, ty \in {UField, UBool}, from \in {Lit(Field), Id("a")} :
          StmtForBegin(id, ty, from, Lit(Field))
    \/ StmtForEnd
    \/ FunctionEnd
    \/ ModuleEnd

(* The inputs drawn when a whole program is checked: every kind of         *)
(* declaration, and functions whose statements are returns and calls.      *)
ProgramSignatures == [inputs : {<<>>}, outputs : OutputLists]

ProgramStructDefinitions ==
    {<<[id |-> "x", ty |-> UField], [id |-> "y", ty |-> UBool]>>,
     <<[id |-> "y", ty |-> UBool], [id |-> "x", ty |-> UField]>>,
     <<[id |-> "x", ty |-> UUser("S")]>>}

Next ==
    \/ CheckProgram
    \/ \E id \in {"S", "f"}, s \in ProgramStructDefinitions : DeclHereType(id, s)
    \/ \E id \in {"main", "f"}, sig \in ProgramSignatures : DeclFlat(id, sig)
    \/ \E id \in SymNames, module_id \in ModuleIds, symbol_id \in SymNames :
          DeclThere(id, module_id, symbol_id)
    \/ ModuleEnd
    \/ \E id \in {"main", "f"}, outputs \in {<<>>, <<UField>>} : FunctionBegin(id, <<>>, outputs)
    \/ \E es \in {<<>>, <<Lit(Field)>>} : StmtReturn(es)
    \/ \E id \in {"main", "f"} : StmtAssertion(Call(id, <<>>))
    \/ \E id \in {"main", "f"} : StmtMultipleDefinition(<<>>, id, <<>>)
    \/ FunctionEnd

\* the checker on a whole program
Spec == Init /\ [][Next]_vars

\* the checker on one module of function declarations
SpecFunction == Init /\ [][NextFunction]_vars

\* a SymbolUnifier on its own
SpecUnifier == Init /\ [][NextUnifier]_vars

\* check_expression on one slice
InitSlice == InitChecker /\ InitUnifier /\ slice \in SliceInputs /\ InlineIdle /\ LinIdle
             /\ RemoverIdle /\ AbiIdle /\ JsonIdle /\ FolderIdle /\ FcheckIdle /\ LiteralIdle

NextSlice == CheckSlice

SpecSlice == InitSlice /\ [][NextSlice]_vars

\* check_expression on one inline struct
InitInline == InitChecker /\ InitUnifier /\ inline \in InlineInputs /\ SliceIdle /\ LinIdle
              /\ RemoverIdle /\ AbiIdle /\ JsonIdle /\ FolderIdle /\ FcheckIdle /\ LiteralIdle

NextInline == CheckInlineStruct

SpecInline == InitInline /\ [][NextInline]_vars

\* the operations of ir::expression on two LinCombs
InitLinComb == InitChecker /\ InitUnifier /\ lin \in LinInputs /\ SliceIdle /\ InlineIdle
               /\ RemoverIdle /\ AbiIdle /\ JsonIdle /\ FolderIdle /\ FcheckIdle /\ LiteralIdle

NextLinComb ==
    \/ Compare
    \/ Canonicalise
    \/ \E k \in FieldElements : Scale(k)
    \/ TryLinear
    \/ Display

SpecLinComb == InitLinComb /\ [][NextLinComb]_vars

\* fold_function of a VariableReadRemover on the statements of the functions
NextRemover == \E s \in Statements : FoldStatement(s)

SpecRemover == Init /\ [][NextRemover]_vars

\* abi() on a typed program that the checker accepted
InitAbi ==
    /\ InitChecker /\ InitUnifier /\ SliceIdle /\ InlineIdle /\ LinIdle /\ RemoverIdle /\ JsonIdle /\ FolderIdle /\ FcheckIdle /\ LiteralIdle
    /\ abi \in [functions : AbiPrograms, done : {FALSE}, out : {AbiPanic("")}]

NextAbi == AbiCall

SpecAbi == InitAbi /\ [][NextAbi]_vars

\* an Abi written as JSON, read back and written again
InitJson ==
    /\ InitChecker /\ InitUnifier /\ SliceIdle /\ InlineIdle /\ LinIdle /\ RemoverIdle /\ AbiIdle /\ FolderIdle /\ FcheckIdle /\ LiteralIdle
    /\ json \in [x : AbiValues(MaxTypeDepth), stage : {"init"}, text : {<<>>},
                 de : {NoParse}, text2 : {<<>>}]

NextJson ==
    \/ JsonSerialize
    \/ JsonDeserialize
    \/ JsonReserialize

SpecJson == InitJson /\ [][NextJson]_vars


\* a folder applied to a typed program
InitFolder ==
    /\ InitChecker /\ InitUnifier /\ SliceIdle /\ InlineIdle /\ LinIdle /\ RemoverIdle /\ AbiIdle /\ JsonIdle /\ FcheckIdle /\ LiteralIdle
    /\ folder \in [f : FolderImpls, p : FolderPrograms,
                   out : {TypedProgram("", <<>>)}, done : {FALSE}]

NextFolder == FoldProgram

SpecFolder == InitFolder /\ [][NextFolder]_vars


\* check_function on a function body
InitFcheck ==
    /\ InitChecker /\ InitUnifier /\ SliceIdle /\ InlineIdle /\ LinIdle /\ RemoverIdle /\ AbiIdle /\ JsonIdle /\ FolderIdle /\ LiteralIdle
    /\ fcheck \in [statements : FunctionBodies(MaxBody), done : {FALSE}, errors : {<<>>},
                   scope : {{}}, level : {0}, checked : {NotCheckedStatement}]

NextFcheck == CheckFunction

SpecFcheck == InitFcheck /\ [][NextFcheck]_vars

\* check_statement on a For statement, in a scope
InitStatement ==
    /\ InitChecker /\ InitUnifier /\ SliceIdle /\ InlineIdle /\ LinIdle /\ RemoverIdle /\ AbiIdle /\ JsonIdle /\ FolderIdle /\ LiteralIdle
    /\ \E level \in StatementLevels :
          fcheck \in [statements : {<<s>> : s \in ForStatements(MaxBody)}, done : {FALSE},
                      errors : {<<>>}, scope : StatementScopes(level), level : {level},
                      checked : {NotCheckedStatement}]

NextStatement == CheckStatement

SpecStatement == InitStatement /\ [][NextStatement]_vars


\* check_expression on an inline array literal
InitLiteral ==
    /\ InitChecker /\ InitUnifier /\ SliceIdle /\ InlineIdle /\ LinIdle /\ RemoverIdle /\ AbiIdle /\ JsonIdle /\ FolderIdle /\ FcheckIdle
    /\ literal \in [elements : ElementLists(MaxElements), done : {FALSE},
                    out : {LiteralErr(NoError)}]

NextLiteral == CheckInlineArray

SpecLiteral == InitLiteral /\ [][NextLiteral]_vars


(***************************************************************************)
(* Properties.                                                             *)
(***************************************************************************)
\* has the message `message` been reported among errs, about name a
Reported(errs, message, a) ==
    \E i \in 1..Len(errs) : errs[i].message = message /\ errs[i].a = a

\* every typed function produced so far by a successful check_function
TypedFunctions ==
    {e.sym : e \in {e \in UNION ({stack[i].checked : i \in 1..Len(stack)}
                                  \cup {typed_modules[m].functions : m \in ModuleIds}) :
                       e.sym.kind = "Here"}}

\* C1: over any sequence of calls on one SymbolUnifier, insert_type(n)
\* returns true iff no earlier call bound n, insert_function(n, sig) returns
\* true iff n is not bound as a type and sig was not already admitted for n;
\* so no name is both a type and a function group, and a rejected call
\* leaves the unifier unchanged.
C1_UnifierContract ==
    /\ \A i \in 1..Len(ulog) :
          LET c == ulog[i]
              earlier == {ulog[j] : j \in 1..(i - 1)}
              bound == \E e \in earlier : e.id = c.id /\ e.ret
              is_type == \E e \in earlier : e.op = "insert_type" /\ e.id = c.id /\ e.ret
              admitted == \E e \in earlier :
                              /\ e.op = "insert_function" /\ e.id = c.id /\ e.ret
                              /\ e.signature = c.signature
          IN  IF c.op = "insert_type"
              THEN c.ret <=> ~bound
              ELSE c.ret <=> (~is_type /\ ~admitted)
    /\ \A n \in SymNames :
          LET accepted == {ulog[j] : j \in {j \in 1..Len(ulog) : ulog[j].id = n /\ ulog[j].ret}}
              as_type == {e \in accepted : e.op = "insert_type"}
              as_function == {e \in accepted : e.op = "insert_function"}
          IN  /\ as_type = {} \/ as_function = {}
              /\ (unifier[n].kind = "type") <=> (as_type # {})
              /\ (unifier[n].kind = "functions") <=> (as_function # {})
              /\ unifier[n].sigs = {e.signature : e \in as_function}
    /\ (ulog # <<>> /\ ~ulog[Len(ulog)].ret) => unifier = uprev

\* a function was refused on a name bound as a type, and a second overload
\* was admitted for another name
C1_Witness ==
    /\ \E i \in 1..Len(ulog) : /\ ulog[i].op = "insert_function" /\ ~ulog[i].ret
                               /\ unifier[ulog[i].id].kind = "type"
    /\ \E n \in SymNames : Cardinality(unifier[n].sigs) = 2

\* C2: check_function returns Ok only if the body holds exactly one Return
\* statement, counted at every nesting depth; a body with none is rejected
\* with 'Expected a return statement', one with two or more with 'Expected a
\* single return statement'.
C2_ExactlyOneReturn ==
    /\ \A funct \in TypedFunctions : Len(funct.returns) = 1
    /\ last.op = "FunctionEnd" =>
          /\ last.ok => last.nret = 1
          /\ last.nret = 0 => Reported(last.errs, "Expected a return statement", "")
          /\ last.nret >= 2 => Reported(last.errs, "Expected a single return statement", "")

\* C3: in every TypedFunction returned by check_function, the expression
\* types of each Return statement it contains equal signature.outputs.
C3_ReturnTypesMatchOutputs ==
    \A funct \in TypedFunctions :
        \A i \in 1..Len(funct.returns) : funct.returns[i].types = funct.signature.outputs

\* C4: a reference to an identifier bound only in a different function of
\* the module is reported as 'Identifier "N" is undefined', whatever the
\* outcome of checking the other function.
C4_OtherFunctionIdentifierUndefined ==
    last.op \in {"Assertion", "Return"} =>
        \A n \in last.ref :
            (n \in last.elsewhere /\ n \notin last.bound)
                => Reported(last.errs, "Identifier is undefined", n)

Registered == {e.key : e \in Top.checked}

\* a key that answers a query: same name, same inputs, as many outputs, and
\* every known output hint equal to the output at its position
Answers(k, q) ==
    /\ k.id = q.id
    /\ k.signature.inputs = q.inputs
    /\ Len(k.signature.outputs) = Len(q.outputs)
    /\ \A i \in 1..Len(q.outputs) :
          q.outputs[i] # NoneT => k.signature.outputs[i] = q.outputs[i]

MainCount == Cardinality({e \in typed_modules[MainModule].functions : e.key.id = "main"})

\* C7: when the main module checks without error, check_program returns Ok
\* iff its typed functions hold exactly one key named main; none gives No
\* main function found, n >= 2 gives Only one main function allowed, found n.
C7_SingleMain ==
    (outcome.status \in {"ok", "err"} /\ typed_modules[MainModule].present) =>
        /\ outcome.status = "ok" <=> MainCount = 1
        /\ MainCount = 0 =>
              outcome.errors = in_file(<<Error("No main function found", "", "")>>, MainModule)
        /\ MainCount >= 2 =>
              /\ outcome.errors =
                    in_file(<<Error("Only one main function allowed, found", "", "")>>,
                            MainModule)
              /\ outcome.n = MainCount

\* two functions named main, of different signatures, passed the unifier
\* and the program was rejected for them
C7_Witness ==
    /\ outcome.status = "err"
    /\ typed_modules[MainModule].present
    /\ MainCount = 2
    /\ outcome.n = 2

\* C8: for any import graph (cycles, a module importing from itself, a
\* module imported several times, an imported module that fails), check
\* returns Ok or Err with a non-empty error list, and never fails fatally.
C8_CheckNeverFatal ==
    /\ outcome.status \in {"init", "running", "ok", "err"}
    /\ outcome.status = "err" => outcome.errors # <<>>
    /\ outcome.status = "ok" => outcome.errors = <<>>

\* an import declaration has just been resolved against a typed module
ImportResolved ==
    /\ last.op \in {"There", "ModuleEnd"}
    /\ last.import.active
    /\ last.which \in {"functions", "type", "none", "unreachable"}

\* the functions named s in the typed module M of the last import
Overloads ==
    {e \in typed_modules[last.import.module_id].functions :
         e.key.id = last.import.symbol_id}

\* C9: when an import with local name L names symbol s of a module M that
\* checked successfully: if M has functions named s, every overload is in
\* the functions of the importing module under key (L, signature) as
\* There((s, signature), M); if M has no function s but a type s, L is bound
\* as a type; if M has neither, Could not find symbol s in module M is
\* reported and nothing is bound to L.
C9_ImportResolution ==
    ImportResolved =>
        LET imp == last.import
            f == Top
        IN  /\ Running
            /\ f.module_id # imp.module_id
            /\ Overloads # {} =>
                  /\ last.which = "functions"
                  /\ \A e \in Overloads :
                        LET sig == signature(e.sym, typed_modules)
                        IN  /\ [key |-> FunctionKey(imp.id, sig),
                                sym |-> There(FunctionKey(imp.symbol_id, sig), imp.module_id)]
                                   \in f.checked
                            /\ FunctionKey(imp.id, sig) \in f.functions
            /\ (Overloads = {} /\ last.candidate0 # NoneT) =>
                  /\ last.which = "type"
                  /\ types[f.module_id][imp.id].k = "struct"
                  /\ f.checked = last.checked0
            /\ (Overloads = {} /\ last.candidate0 = NoneT) =>
                  /\ last.which = "none"
                  /\ f.errors # <<>>
                  /\ f.errors[Len(f.errors)] =
                        [inner |-> Error("Could not find symbol in module",
                                         imp.symbol_id, imp.module_id),
                         module_id |-> f.module_id]
                  /\ f.symbols = last.symbols0
                  /\ f.checked = last.checked0
                  /\ types[f.module_id][imp.id] = last.type0

\* two overloads of s were imported under another name
C9_Witness ==
    /\ ImportResolved
    /\ Running
    /\ Cardinality(Overloads) = 2
    /\ last.import.id # last.import.symbol_id
    /\ Cardinality({e \in Top.checked : e.key.id = last.import.id /\ e.sym.kind = "There"}) = 2

\* C10: when module B imports struct s of module A under local name L, the
\* types map holds for (B, L) a struct of location (B, L) whose ordered
\* members are those of the type s of A, and the entry of A is unchanged.
C10_ImportedStructRenamed ==
    (ImportResolved /\ last.which = "type") =>
        LET imp == last.import
            B == Top.module_id
        IN  /\ last.candidate0.k = "struct"
            /\ types[B][imp.id] =
                  [k |-> "struct", loc |-> <<B, imp.id>>, mem |-> last.candidate0.mem]
            /\ types[imp.module_id][imp.symbol_id] = last.candidate0

\* a struct of two members was imported under a name that is not its own
C10_Witness ==
    /\ ImportResolved
    /\ last.which = "type"
    /\ last.import.id # last.import.symbol_id
    /\ Len(last.candidate0.mem) = 2
    /\ types[Top.module_id][last.import.id].loc = <<Top.module_id, last.import.id>>

\* the bounds of the slice as numbers, an omitted one being 0 or the size
SliceFrom == IF slice.from = NoBound THEN 0 ELSE slice.from

SliceTo == IF slice.to = NoBound THEN slice.size ELSE slice.to

\* C11: for an array of size s and a slice whose present bounds are field
\* literals of any value, checking succeeds iff 0 <= from <= to <= s and
\* then gives an inline array of size to - from whose k-th element is
\* a[from + k]; otherwise it returns a range error, in the order lower out
\* of bounds, higher out of bounds, lower larger than higher.
C11_SliceBounds ==
    slice.out # NotChecked =>
        LET f == SliceFrom
            t == SliceTo
            s == slice.size
            out == slice.out
        IN  /\ out.kind \in {"ok", "err"}
            /\ out.kind = "ok" <=> (0 <= f /\ f <= t /\ t <= s)
            /\ out.kind = "ok" =>
                  /\ out.size = t - f
                  /\ Len(out.elems) = t - f
                  /\ \A k \in 0..(t - f - 1) : out.elems[k + 1] = f + k
            /\ out.kind = "err" =>
                  out = IF f > s
                        THEN SliceErr("Lower range bound is out of array bounds", f, s)
                        ELSE IF t > s
                        THEN SliceErr("Higher range bound is out of array bounds", t, s)
                        ELSE SliceErr("Lower range bound is larger than higher range bound",
                                      f, t)

\* the ids of a list of members, declared or given
Ids(l) == {l[i].id : i \in 1..Len(l)}

\* how many times an id is in a list of members
Times(l, id) == Cardinality({i \in 1..Len(l) : l[i].id = id})

\* C12: an inline struct checks against the declared struct iff its member
\* names are exactly the declared ones, each exactly once in any order,
\* and each value has the declared type; a literal that repeats, omits or
\* adds a member is rejected; on success the values are in declaration
\* order.
C12_InlineStruct ==
    inline.out # InlineNotChecked =>
        LET members == inline.members
            given == inline.inline_members
            out == inline.out
            exact == /\ Ids(given) = Ids(members)
                     /\ \A id \in Ids(given) : Times(given, id) = 1
            typed == \A i \in 1..Len(members) : \A j \in 1..Len(given) :
                         given[j].id = members[i].id => given[j].ty = members[i].ty
        IN  /\ out.ok <=> (exact /\ typed)
            /\ out.ok =>
                  /\ Len(out.values) = Len(members)
                  /\ \A i \in 1..Len(members) :
                        /\ out.values[i].id = members[i].id
                        /\ out.values[i] \in {given[j] : j \in 1..Len(given)}
            /\ ~out.ok => out.values = <<>>

\* a literal of two members given in the other order than declared, accepted
C12_Witness ==
    /\ inline.out.ok
    /\ Len(inline.members) = 2
    /\ inline.inline_members[1].id = inline.members[2].id
    /\ inline.out.values[1] = inline.inline_members[2]

\* the sum mod p of the coefficients of a wire in a term list
RECURSIVE CoefficientSum(_, _)
CoefficientSum(l, w) ==
    IF l = <<>> THEN 0
    ELSE (CoefficientSum(Tail(l), w) + (IF l[1][1] = w THEN l[1][2] ELSE 0)) % Prime

\* C13: LinComb equality is equality of canonical forms: l == m iff every
\* wire has the same coefficient sum mod p in l and in m; l + zero == l
\* and l - l == zero, also with duplicate wires and zero coefficients.
C13_LinCombEquality ==
    lin.op = "eq" =>
        /\ lin.out.eq <=> (\A w \in Wires : CoefficientSum(lin.l, w) = CoefficientSum(lin.m, w))
        /\ lin.out.add_zero
        /\ lin.out.sub_self

\* two lists of different lengths, one with a wire twice, compared equal
C13_Witness ==
    /\ lin.op = "eq"
    /\ lin.out.eq
    /\ Len(lin.l) = 3
    /\ Len(lin.m) = 1
    /\ lin.l[1][1] = lin.l[3][1]
    /\ lin.l[2][2] = FZero
    /\ lin.l[1][2] # FZero
    /\ lin.l[3][2] # FZero
    /\ lin.m[1][2] # FZero

\* C14: into_canonical(l) maps each wire to the sum mod p of its
\* coefficients in l and omits exactly the wires of sum 0: no duplicate
\* wire, no zero coefficient, whatever the order and the cancellations; the
\* assertion on zero coefficients never fails; reduce is idempotent.
C14_CanonicalForm ==
    lin.op = "canonical" =>
        /\ lin.out.map = {<<w, CoefficientSum(lin.l, w)>> :
                              w \in {w \in Wires : CoefficientSum(lin.l, w) # 0}}
        /\ \A e \in lin.out.map : e[2] # FZero
        /\ \A e, d \in lin.out.map : e[1] = d[1] => e = d
        /\ ~lin.out.panic
        /\ lin.out.twice = lin.out.reduced
        /\ \A i, j \in 1..Len(lin.out.reduced) :
              i < j => lin.out.reduced[i][1] < lin.out.reduced[j][1]

\* a wire cancelled by its second term and given again by a third
C14_Witness ==
    /\ lin.op = "canonical"
    /\ Len(lin.l) = 3
    /\ lin.l[1][1] = lin.l[2][1]
    /\ lin.l[1][1] = lin.l[3][1]
    /\ FAdd(lin.l[1][2], lin.l[2][2]) = FZero
    /\ lin.l[1][2] # FZero
    /\ lin.l[3][2] # FZero
    /\ lin.out.map = {lin.l[3]}

\* a term list has, for every wire, k times the coefficient sum of another
Scaled(r, k, l) == \A w \in Wires : CoefficientSum(r, w) = (k * CoefficientSum(l, w)) % Prime

\* C15: for every LinComb l and non-zero k, (l * k) / k == l; both scale
\* the coefficient of every term mod p and keep wires and term order;
\* division by zero fails instead of returning a LinComb.
C15_ScaleAndDivide ==
    lin.op = "scale" =>
        LET k == lin.out.k
            product == lin.out.product
            quotient == lin.out.quotient
        IN  /\ Len(product) = Len(lin.l)
            /\ \A i \in 1..Len(lin.l) :
                  product[i] = <<lin.l[i][1], (lin.l[i][2] * k) % Prime>>
            /\ k # 0 =>
                  /\ ~quotient.panic
                  /\ lin.out.back
                  /\ quotient.value = lin.l
            /\ k = 0 => (quotient.panic /\ ~lin.out.back)

\* a list of three terms scaled by an element that is not its own inverse
C15_Witness ==
    /\ lin.op = "scale"
    /\ lin.out.k = 2
    /\ Len(lin.l) = 3
    /\ lin.l[1][2] = 3
    /\ lin.out.product[1][2] = 1
    /\ lin.out.back

\* a term list is k * ONE in canonical form, k not zero
Constant(l) ==
    /\ CoefficientSum(l, One) # 0
    /\ \A w \in Wires \ {One} : CoefficientSum(l, w) = 0

Zero(l) == \A w \in Wires : CoefficientSum(l, w) = 0

\* C16: try_linear returns Some(k * right) when left reduces to k * ONE,
\* Some(k * left) when right does, Some(zero) when either side reduces to
\* zero, None otherwise; a result Some(r) equals left * right, and equal
\* QuadCombs get equal results.
C16_TryLinear ==
    lin.op = "try_linear" =>
        LET left == lin.l
            right == lin.m
            r == lin.out.linear
        IN  /\ Constant(left) =>
                  (r.some /\ Scaled(r.value, CoefficientSum(left, One), right))
            /\ (~Constant(left) /\ Constant(right)) =>
                  (r.some /\ Scaled(r.value, CoefficientSum(right, One), left))
            /\ (Zero(left) \/ Zero(right)) => (r.some /\ Zero(r.value))
            /\ ~(Constant(left) \/ Constant(right) \/ Zero(left) \/ Zero(right)) => ~r.some
            /\ lin.out.equal =>
                  /\ r.some = lin.out.reduced.some
                  /\ r.some => eq(r.value, lin.out.reduced.value)

\* the text of the canonical form of a term list
CanonicalText(l) ==
    LET present == {w \in Wires : CoefficientSum(l, w) # 0}
        terms == from_canonical({<<w, CoefficientSum(l, w)>> : w \in present})
    IN  IF present = {} THEN "0"
        ELSE join([i \in 1..Len(terms) |->
                      ToString(terms[i][2]) \o " * " \o WireText(terms[i][1])])

\* C17: Display prints the terms of the canonical form in ascending wire
\* order as c * x joined by +, and 0 whenever the canonical form is empty,
\* also for a term list whose coefficients cancel or are zero; so two equal
\* LinCombs print the same text.
C17_Display ==
    lin.op = "display" =>
        /\ lin.out.l = CanonicalText(lin.l)
        /\ lin.out.m = CanonicalText(lin.m)
        /\ lin.out.equal => lin.out.l = lin.out.m

\* whether an expression holds a read of an array at an index that is not a
\* literal, at any depth
RECURSIVE HasVariableRead(_)
HasVariableRead(e) ==
    \/ e.k = "Select" /\ e.c[2].k # "Number"
    \/ \E k \in 1..Len(e.c) : HasVariableRead(e.c[k])

\* the same for a statement and the statements of its body
RECURSIVE StatementHasVariableRead(_)
StatementHasVariableRead(s) ==
    \/ \E k \in 1..Len(s.e) : HasVariableRead(s.e[k])
    \/ \E k \in 1..Len(s.body) : StatementHasVariableRead(s.body[k])

\* C18: after the remover has folded a statement, no expression of the
\* statements it returned reads an array at an index that is not a literal
\* Number, the reads nested in the array or in the index of another read and
\* the reads of the emitted assertions included.
C18_NoVariableRead ==
    (remover.calls > 0 /\ ~remover.panic)
        => \A k \in 1..Len(remover.out) : ~StatementHasVariableRead(remover.out[k])

\* the values of the identifiers i, j and of the cells the arrays are made of
Valuations == [ids : [0..1 -> FieldElements], mem : [1..MaxArray -> FieldElements]]

\* the value of an expression: a field element, a boolean, or the sequence
\* of the values of the elements of an array
RECURSIVE Eval(_, _)
Eval(e, env) ==
    CASE e.k = "Number" -> e.n
      [] e.k = "Identifier" /\ e.arm = "field" -> env.ids[e.n]
      [] e.k = "Identifier" /\ e.arm = "array" /\ e.ty = <<>> ->
             [k \in 1..e.size |-> env.mem[k]]
      [] e.k = "Identifier" /\ e.arm = "array" /\ e.ty # <<>> ->
             [r \in 1..e.size |->
                 [k \in 1..Head(e.ty) |-> FAdd(FMul(env.mem[r], 2), env.mem[k])]]
      [] e.k = "Add" -> FAdd(Eval(e.c[1], env), Eval(e.c[2], env))
      [] e.k = "FieldEq" -> Eval(e.c[1], env) = Eval(e.c[2], env)
      [] e.k = "Or" -> Eval(e.c[1], env) \/ Eval(e.c[2], env)
      [] e.k = "IfElse" ->
             IF Eval(e.c[1], env) THEN Eval(e.c[2], env) ELSE Eval(e.c[3], env)
      [] e.k = "Select" -> Eval(e.c[1], env)[Eval(e.c[2], env) + 1]

\* whether every read of an expression is inside its array
RECURSIVE InRange(_, _)
InRange(e, env) ==
    /\ \A k \in 1..Len(e.c) : InRange(e.c[k], env)
    /\ e.k = "Select" => Eval(e.c[2], env) < e.c[1].size

\* C19: for a read a[i] of an array of size n >= 1 at an index i that is not
\* a literal, the assertion emitted is true iff the value v of i is below n,
\* and whenever it is true the chain put in place of the read has the value
\* of a[v]; for n = 1 the chain is a[0].
C19_AssertionAndChain ==
    LET s == remover.s
        read == s.e[1]
        a == read.c[1]
        i == read.c[2]
        out == remover.out
    IN  (/\ remover.calls > 0
         /\ ~remover.panic
         /\ s.k = "Definition"
         /\ read.k = "Select"
         /\ i.k # "Number")
            => /\ Len(out) = 2
               /\ out[1].k = "Assertion"
               /\ out[2].k = "Definition"
               /\ a.size = 1 => out[2].e[1] = Select(read.arm, a, Number(0))
               /\ \A env \in Valuations :
                      (InRange(a, env) /\ InRange(i, env))
                          => LET v == Eval(i, env)
                             IN  /\ Eval(out[1].e[1], env) <=> v < a.size
                                 /\ v < a.size
                                        => Eval(out[2].e[1], env) = Eval(a, env)[v + 1]

\* a read of an array of the largest size at an identifier has been lowered
C19_Witness ==
    /\ remover.calls > 0
    /\ ~remover.panic
    /\ remover.s = Definition(0, Select("field", ArrayIdentifier(0, <<>>, MaxArray),
                                        Identifier(0)))
    /\ Len(remover.out) = 2

\* the reads at an index that is not a literal met by the traversal of a
\* list of expressions, in its order; the traversal does not enter a read
RECURSIVE ReadsOf(_)
ReadsOf(es) ==
    IF es = <<>>
    THEN <<>>
    ELSE LET e == Head(es)
         IN  (IF e.k = "Select"
              THEN IF e.c[2].k = "Number" THEN <<>> ELSE <<e>>
              ELSE ReadsOf(e.c)) \o ReadsOf(Tail(es))

\* C20: every fold_statement call returns a list: one Assertion for each
\* read rewritten in the expressions of the statement, in the order of the
\* traversal, then the rewritten statement as last element; a statement
\* without a read at an index that is not a literal is returned as it is;
\* no statement is pending in the remover after the call.
C20_FoldStatement ==
    remover.calls > 0
        => /\ ~remover.panic
           /\ remover.statements = <<>>
           /\ LET s == remover.s
                  out == remover.out
                  reads == ReadsOf(s.e)
              IN  /\ Len(out) = Len(reads) + 1
                  /\ \A k \in 1..Len(reads) :
                         out[k] = Assertion(or_chain(reads[k].c[2], reads[k].c[1].size))
                  /\ out[Len(out)].k = s.k
                  /\ ~StatementHasVariableRead(s) => out = <<s>>

\* the entry named main of the typed program given to abi()
AbiMain == CHOOSE e \in abi.functions : e.key.id = "main"

\* C21: when the main module defines one local function named main, abi()
\* returns one input per parameter of main, in the order of the parameters,
\* with the name of the parameter, public = not private and its type, and
\* the outputs of the signature of main in their order.
C21_AbiOfMain ==
    (abi.done /\ AbiMain.sym.kind = "Here")
        => LET main == AbiMain.sym
           IN  /\ abi.out.panic = ""
               /\ Len(abi.out.inputs) = Len(main.arguments)
               /\ \A i \in 1..Len(main.arguments) :
                      /\ abi.out.inputs[i].name = main.arguments[i].id
                      /\ abi.out.inputs[i].public = ~main.arguments[i].private
                      /\ abi.out.inputs[i].ty = main.arguments[i].ty
               /\ abi.out.outputs = main.signature.outputs

\* abi() has run on a main of two parameters of different types and
\* visibility and two outputs, next to another function
C21_Witness ==
    /\ abi.done
    /\ AbiMain.sym.kind = "Here"
    /\ Len(AbiMain.sym.arguments) = MaxParams
    /\ AbiMain.sym.arguments[1].private # AbiMain.sym.arguments[2].private
    /\ AbiMain.sym.arguments[1].ty # AbiMain.sym.arguments[2].ty
    /\ Len(abi.out.outputs) = 2
    /\ Cardinality(abi.functions) = 2

\* C29: for every program that Checker::check accepts, abi() returns an Abi
\* and does not fail fatally, also when the function named main of the main
\* module is imported or an embed.
C29_AbiNeverFatal == abi.done => abi.out.panic = ""

\* C22: an Abi written as JSON and read back is the Abi that was written
C22_RoundTrip ==
    json.stage \in {"deserialized", "reserialized"} =>
        /\ json.de.ok
        /\ json.de.val[1] = json.x

\* the text of an Abi read back and written again is the text it was read from
C22_SameJson ==
    json.stage = "reserialized" => json.text2 = json.text

\* the identifiers of an expression, from left to right
RECURSIVE names_of_expression(_)
names_of_expression(e) ==
    IF e.k = "Identifier"
    THEN <<e.n>>
    ELSE IF e.c = <<>>
    THEN <<>>
    ELSE names_of_expression(Head(e.c))
             \o names_of_expression([e EXCEPT !.k = "", !.c = Tail(e.c)])

\* how often the overriding fold_field_expression was called on the field
\* expressions of an expression, from left to right and from the outside in
RECURSIVE visits_of_expression(_)
visits_of_expression(e) ==
    (IF e.arm = "field" /\ e.k # "" THEN <<e.size>> ELSE <<>>)
        \o (IF e.c = <<>>
            THEN <<>>
            ELSE visits_of_expression(Head(e.c))
                     \o visits_of_expression([e EXCEPT !.arm = "", !.c = Tail(e.c)]))

\* the identifiers (visits = FALSE) or the visits of the field expressions
\* (visits = TRUE) of a statement: its variable, its expressions with the
\* bounds of a For, its body
RECURSIVE walk_statements(_, _)
walk_statements(ss, visits) ==
    IF ss = <<>>
    THEN <<>>
    ELSE LET s == Head(ss)
             es == [k |-> "", arm |-> "", n |-> 0, size |-> 0, ty |-> <<>>, c |-> s.e]
         IN  (IF visits
              THEN visits_of_expression(es)
              ELSE (IF s.k \in {"Definition", "Declaration", "For"} THEN <<s.v>> ELSE <<>>)
                       \o names_of_expression(es))
                 \o walk_statements(s.body, visits)
                 \o walk_statements(Tail(ss), visits)

\* the identifiers of a function: its parameters, then its statements
names_of_function(fun) ==
    [i \in 1..Len(fun.arguments) |-> fun.arguments[i].id]
        \o walk_statements(fun.statements, FALSE)

FolderMainIn == folder.p.modules["main"]["main"].fun

FolderMainOut == folder.out.modules["main"]["main"].fun

\* C23: the default methods rebuild the program they are given, a folder
\* that overrides only fold_name is applied once to every identifier of a
\* function defined in the module and one that overrides only
\* fold_field_expression once to every field expression of it, the bounds
\* of a For included
C23_FolderDefaults ==
    folder.done =>
        /\ (~folder.f.fold_name /\ ~folder.f.fold_field_expression)
               => folder.out = folder.p
        /\ folder.f.fold_name
               => LET before == names_of_function(FolderMainIn)
                      after == names_of_function(FolderMainOut)
                  IN  after = [i \in 1..Len(before) |-> new_name(before[i])]
        /\ folder.f.fold_field_expression
               => LET after == walk_statements(FolderMainOut.statements, TRUE)
                  IN  \A i \in 1..Len(after) : after[i] = 1

\* a statement is a For, or has one in its body
RECURSIVE HasFor(_)
HasFor(ss) ==
    \E i \in 1..Len(ss) : ss[i].k = "For" \/ HasFor(ss[i].body)

\* the claim holds of every function without a For
C23_WithoutFor ==
    (folder.done /\ ~HasFor(FolderMainIn.statements)) => C23_FolderDefaults

\* the identifiers asserted in statements, in source order: the assertion
\* of an identifier fails wherever it stands, no boolean variable being
\* declared
RECURSIVE failing_statements(_)
failing_statements(statements) ==
    IF statements = <<>>
    THEN <<>>
    ELSE LET s == Head(statements)
         IN  (IF s.k = "Assertion" /\ s.e.e = "id" THEN <<s.e.name>> ELSE <<>>)
                 \o failing_statements(s.body)
                 \o failing_statements(Tail(statements))

\* C24: the errors check_function returns are, in source order, the errors
\* of the statements of the function whose checking fails, at any depth
C24_ErrorsAccumulated ==
    fcheck.done =>
        LET failing == failing_statements(fcheck.statements)
        IN  /\ Len(fcheck.errors) = Len(failing)
            /\ \A i \in 1..Len(failing) : fcheck.errors[i].a = failing[i]

\* the statements of a function outside of any For statement are all
\* checked: the errors of those that fail are returned in source order
C24_TopLevelAccumulated ==
    (fcheck.done /\ \A i \in 1..Len(fcheck.statements) : fcheck.statements[i].k # "For")
        => C24_ErrorsAccumulated

\* C25: a module leaves the pending modules once and for all, a typed module
\* is inserted once, never over another one, and only by a check_module
\* call that found no error; check_module on a module that is not pending
\* returns Ok(()) and leaves the pending modules and the typed modules as
\* they are, and of the types map only the symbol the import declares may
\* change afterwards
C25_TypedAtMostOnce ==
    [][/\ modules' \subseteq modules
       /\ \A m \in ModuleIds :
             /\ typed_modules[m].present => typed_modules'[m] = typed_modules[m]
             /\ (~typed_modules[m].present /\ typed_modules'[m].present)
                    => /\ m \notin modules
                       /\ stack # <<>>
                       /\ Top.module_id = m
                       /\ Top.errors = <<>>
       /\ outcome'.panic # "assertion failed: typed_modules.insert(..).is_none()"
       /\ (last'.op = "There" /\ last'.import.active)
              => /\ last'.import.module_id \notin modules
                 /\ modules' = modules
                 /\ typed_modules' = typed_modules
                 /\ last'.which # "failed"
                 /\ \A m \in ModuleIds : \A id \in DOMAIN types[m] :
                        types'[m][id] # types[m][id]
                            => (m = Top.module_id /\ id = last'.import.id)]_vars

\* an import from a module that was typed before
C25_Witness ==
    /\ last.op = "There"
    /\ last.import.active
    /\ typed_modules[last.import.module_id].present

\* the variables statements bind: the variables they declare and the
\* variables of their For statements, at any depth
RECURSIVE bound_in(_)
bound_in(statements) ==
    IF statements = <<>>
    THEN {}
    ELSE LET s == Head(statements)
         IN  (IF s.k \in {"Declaration", "For"} THEN {s.id} ELSE {})
                 \cup bound_in(s.body) \cup bound_in(Tail(statements))

\* C26: a For statement checked without error leaves the level of the
\* checker as it was, no variable it binds can be resolved after it unless
\* one of that name was in scope before, and every variable that was in
\* scope before is still there with its type and level
C26_ForFrame ==
    (fcheck.done /\ fcheck.checked.ok) =>
        /\ fcheck.checked.level = fcheck.level
        /\ \A id \in bound_in(fcheck.statements) :
              get_scope(fcheck.checked.scope, id) # {} => get_scope(fcheck.scope, id) # {}
        /\ \A v \in fcheck.scope : v \in fcheck.checked.scope

\* a For statement accepted in a scope that is not empty, whose body
\* declares a variable
C26_Witness ==
    /\ fcheck.done
    /\ fcheck.checked.ok
    /\ fcheck.scope # {}
    /\ \E i \in 1..Len(fcheck.statements[1].body) :
          fcheck.statements[1].body[i].k = "Declaration"

\* C28: while the body of an accepted For statement is checked, the name
\* of the loop variable resolves to a variable of type field; while the
\* body of a function is checked, the name of each parameter resolves to
\* a variable of the type the parameter declares
C28_BinderEffective ==
    /\ (last.op = "For" /\ last.ok /\ InFunction)
           => /\ get_scope(Top.scope, last.name) # {}
              /\ \A v \in get_scope(Top.scope, last.name) : v.ty = Field
    /\ (last.op = "FunctionBegin" /\ InFunction)
           => \A i \in 1..Len(Top.fn.arguments) :
                 /\ get_scope(Top.scope, Top.fn.arguments[i].id) # {}
                 /\ \A v \in get_scope(Top.scope, Top.fn.arguments[i].id) :
                       v.ty = Top.fn.arguments[i].ty

\* C27: in a module whose declarations the symbol unifier accepted, a query
\* the checker builds for a call matches at most one of the function keys
\* declared, so that find_function has one key to return
C27_DeterministicResolution ==
    (/\ stack # <<>>
     /\ last.query # NoQuery
     /\ \A i \in 1..Len(Top.errors) :
           Top.errors[i].inner.message # "conflicts with another symbol")
        => Cardinality(find_function(last.query, Top.functions)) <= 1

\* the first element of a literal whose check does not return Ok: a spread
\* of an expression that is not an array, or an expression that fails
FirstFailing(elements) ==
    LET failing == {i \in 1..Len(elements) :
                       \/ elements[i].ty = NoneT
                       \/ elements[i].spread /\ elements[i].ty.k # "array"}
    IN  IF failing = {} THEN 0 ELSE CHOOSE i \in failing : \A j \in failing : i <= j

\* the number of expressions of a literal once its spreads are expanded
RECURSIVE ExpandedLen(_)
ExpandedLen(elements) ==
    IF elements = <<>>
    THEN 0
    ELSE (IF Head(elements).spread /\ Head(elements).ty.k = "array"
          THEN Head(elements).ty.loc[1]
          ELSE 1) + ExpandedLen(Tail(elements))

\* C30: the check of an inline array literal does not panic; the spread of
\* an expression that is not an array returns the error of the spread
\* operator, a literal with no expression once the spreads are expanded
\* returns an error, and a literal accepted is an array of as many elements
\* as the literal expands to
C30_InlineArrayNeverFatal ==
    literal.done =>
        LET first == FirstFailing(literal.elements)
        IN  /\ literal.out.status # "panic"
            /\ (first # 0 /\ literal.elements[first].ty # NoneT)
                  => /\ literal.out.status = "err"
                     /\ literal.out.err.message
                            = "Expected spread operator to apply on array, found"
            /\ (first = 0 /\ ExpandedLen(literal.elements) = 0)
                  => literal.out.status = "err"
            /\ literal.out.status = "ok"
                  => /\ literal.out.ty.k = "array"
                     /\ literal.out.size = ExpandedLen(literal.elements)

\* the claim holds of every literal that expands to an expression or more
\* and whose spreads are all of arrays
C30_ArrayOfFirstType ==
    (/\ literal.done
     /\ ExpandedLen(literal.elements) > 0
     /\ \A i \in 1..Len(literal.elements) :
           literal.elements[i].spread => literal.elements[i].ty.k \in {"array", "none"})
        => C30_InlineArrayNeverFatal

====
